---- MODULE Spec2Model ----
(***************************************************************************)
(* Verification model of the food-safety / workout query router            *)
(* (TropicalWatermelon/datathon, simple-mcp).                               *)
(*                                                                         *)
(* Components modelled:                                                    *)
(*   - workout_recommender.py : _choose_focus, _default_blocks_for_focus,  *)
(*                              recommend_workout_from_context             *)
(*   - multi_parser.py        : extract_product_search_terms_multi         *)
(*   - main.py/helpers_usda.py: _score_fdc_hit, _pick_best_fdc_hit         *)
(*   - workout_recommender.py : parse_macros_from_context, estimated_kcal  *)
(*   - multi_parser.py        : the three cached provider lookups and      *)
(*                              get_multi_context                          *)
(*   - main.py/helpers_usda.py: _fdc_search_json, _fdc_search_multi,       *)
(*                              extract_food_term, fdc_context             *)
(*                                                                         *)
(* Text is modelled at character level: a Python str is a sequence of      *)
(* one-character strings, so that lower(), strip(), split(), substring     *)
(* tests and the list-separator regex are computed, not assumed.           *)
(* Optional values: None is <<>>, a present value v is <<v>>.              *)
(***************************************************************************)
EXTENDS Integers, Sequences, FiniteSets, TLC

VARIABLES
    \* --- workout recommender: one request and its results
    macros,       \* Macros dataclass: protein_g, carbs_g, sugars_g, fat_g, kcal (each Optional)
    goal,         \* goal argument (str; "" stands for None/empty)
    minutes,      \* minutes argument (int)
    experience,   \* experience argument (str)
    focus,        \* result of _choose_focus: <<>> before the call, <<[focus, why]>> after
    plan,         \* result of recommend_workout_from_context: <<>> or <<WorkoutPlan>>
    \* --- term extractor: one request and its results
    query,        \* query argument (str)
    max_terms,    \* max_terms argument (int)
    terms,        \* returned list: <<>> before the call, <<list>> after
    candidates,   \* the candidates list at return, each entry with its provenance
    seg,          \* the segmenter's answer for this query: <<>> until nlp() has been called
    calls,        \* number of calls made with this query
    \* --- result ranker: one request and its results
    term,         \* term argument (str)
    foods,        \* foods argument (list of dict)
    best,         \* results of _pick_best_fdc_hit: [main, helpers], each <<>> before its call
    scores,       \* results of _score_fdc_hit: [main, helpers], each <<>> before its call
    context,      \* context argument of parse_macros_from_context (str)
    parsed,       \* result of parse_macros_from_context: <<>> before the call, then <<Macros>>
    kcal_est,     \* result of Macros.estimated_kcal(): <<>> before the call, then <<r>>
    \* --- provider lookups and their caches
    USDA_API_KEY,     \* module constant read from the environment: TRUE when a key is set
    OPENFDA_API_KEY,  \* module constant read from the environment: TRUE when a key is set
    cache,            \* the three lru_cache objects, by function name: entries oldest first
    lookups,          \* the lookups made by the latest call, in order, each with its outcome
                      \* (a direct client call also records the provider's condition)
    driver,           \* the function this run's client calls
    fresh,            \* number of never-seen terms the client has asked for so far
    items,            \* items argument of get_multi_context (list of str)
    do_recall,        \* do_recall argument
    do_nutrition,     \* do_nutrition argument
    out,              \* result of get_multi_context: <<>> before the call, then <<dict>>
    multi_calls,      \* number of get_multi_context calls made
    \* --- FoodData Central search (main.py, helpers_usda.py)
    fdc_query,        \* query argument of fdc_context (str)
    fdc_provider,     \* what the FDC search does for each data type during this request
    all_hits,         \* results of _fdc_search_multi: [main, helpers], each <<>> before its call
    fdc_text,         \* result of fdc_context: <<>> before the call, then <<outcome>>
    fdc_data_type,    \* data_type argument of a direct _fdc_search_json call: None or <<type>>
    fdc_json          \* results of _fdc_search_json: [main, helpers], each <<>> before its call

wvars == <<macros, goal, minutes, experience, focus, plan>>
tvars == <<query, max_terms, terms, candidates, seg, calls>>
rvars == <<term, foods, best, scores>>
pvars == <<context, parsed, kcal_est>>
cvars == <<USDA_API_KEY, OPENFDA_API_KEY, cache, lookups, driver, fresh,
           items, do_recall, do_nutrition, out, multi_calls>>
fvars == <<fdc_query, fdc_provider, all_hits, fdc_text, fdc_data_type, fdc_json>>
yvars == <<cvars, fvars>>
xvars == <<pvars, yvars>>
vars == <<macros, goal, minutes, experience, focus, plan,
          query, max_terms, terms, candidates, seg, calls,
          term, foods, best, scores,
          context, parsed, kcal_est,
          USDA_API_KEY, OPENFDA_API_KEY, cache, lookups, driver, fresh,
          items, do_recall, do_nutrition, out, multi_calls,
          fdc_query, fdc_provider, all_hits, fdc_text, fdc_data_type, fdc_json>>

(***************************************************************************)
(* Python str helpers (character sequences).                               *)
(***************************************************************************)
None == <<>>
Some(v) == <<v>>

\* str.lower() on one character (ASCII letters)
LowerChar(c) ==
    CASE c = "A" -> "a" [] c = "B" -> "b" [] c = "C" -> "c" [] c = "D" -> "d"
      [] c = "E" -> "e" [] c = "F" -> "f" [] c = "G" -> "g" [] c = "H" -> "h"
      [] c = "I" -> "i" [] c = "J" -> "j" [] c = "K" -> "k" [] c = "L" -> "l"
      [] c = "M" -> "m" [] c = "N" -> "n" [] c = "O" -> "o" [] c = "P" -> "p"
      [] c = "Q" -> "q" [] c = "R" -> "r" [] c = "S" -> "s" [] c = "T" -> "t"
      [] c = "U" -> "u" [] c = "V" -> "v" [] c = "W" -> "w" [] c = "X" -> "x"
      [] c = "Y" -> "y" [] c = "Z" -> "z" [] OTHER -> c

\* str.lower()
Lower(s) == [i \in 1..Len(s) |-> LowerChar(s[i])]

IsSpace(c) == c = " "

\* str.strip()
RECURSIVE LStrip(_)
LStrip(s) == IF s # <<>> /\ IsSpace(Head(s)) THEN LStrip(Tail(s)) ELSE s
RECURSIVE RStrip(_)
RStrip(s) ==
    IF s # <<>> /\ IsSpace(s[Len(s)]) THEN RStrip(SubSeq(s, 1, Len(s) - 1)) ELSE s
Strip(s) == RStrip(LStrip(s))

\* s.startswith(p)
StartsWith(s, p) == Len(p) <= Len(s) /\ SubSeq(s, 1, Len(p)) = p

\* p in s (substring test)
Contains(s, p) ==
    \E i \in 1..(Len(s) - Len(p) + 1) : SubSeq(s, i, i + Len(p) - 1) = p

\* str.split(): the whitespace-separated words of s
RECURSIVE SplitWsAcc(_, _, _)
SplitWsAcc(s, cur, acc) ==
    IF s = <<>> THEN (IF cur = <<>> THEN acc ELSE Append(acc, cur))
    ELSE IF IsSpace(Head(s))
         THEN SplitWsAcc(Tail(s), <<>>, IF cur = <<>> THEN acc ELSE Append(acc, cur))
         ELSE SplitWsAcc(Tail(s), Append(cur, Head(s)), acc)
SplitWs(s) == SplitWsAcc(s, <<>>, <<>>)

\* " ".join(ws)
RECURSIVE JoinSp(_)
JoinSp(ws) ==
    IF ws = <<>> THEN <<>>
    ELSE IF Len(ws) = 1 THEN ws[1]
    ELSE ws[1] \o <<" ">> \o JoinSp(Tail(ws))

\* list[:n] for n >= 0
Take(l, n) == SubSeq(l, 1, IF n < Len(l) THEN n ELSE Len(l))

\* x in list
InList(l, x) == \E i \in 1..Len(l) : l[i] = x

Max2(a, b) == IF a >= b THEN a ELSE b
Min2(a, b) == IF a <= b THEN a ELSE b

(***************************************************************************)
(* workout_recommender.py                                                  *)
(***************************************************************************)
S_balance      == <<"b","a","l","a","n","c","e">>
S_strength     == <<"s","t","r","e","n","g","t","h">>
S_power        == <<"p","o","w","e","r">>
S_fat_loss     == <<"f","a","t"," ","l","o","s","s">>
S_cut          == <<"c","u","t">>
S_lean         == <<"l","e","a","n">>
S_conditioning == <<"c","o","n","d","i","t","i","o","n","i","n","g">>
S_muscle       == <<"m","u","s","c","l","e">>
S_hypertrophy  == <<"h","y","p","e","r","t","r","o","p","h","y">>
S_build        == <<"b","u","i","l","d">>
S_beginner     == <<"b","e","g","i","n","n","e","r">>
S_novice       == <<"n","o","v","i","c","e">>

\* mutant of OrZero: an undefined field reads as 10 grams
OrZero_Ten(o) == IF o = None THEN 10 ELSE o[1]

\* `x or 0.0` on an Optional number
OrZero(o) == IF o = None THEN 0 ELSE o[1]

\* mutant of EstimatedKcal: sugars counts as a present field
EstimatedKcal_SugarsCount(m) ==
    IF m.kcal # None THEN m.kcal
    ELSE IF m.protein_g = None /\ m.carbs_g = None /\ m.fat_g = None /\ m.sugars_g = None
    THEN None
    ELSE Some(4 * OrZero(m.protein_g) + 4 * OrZero(m.carbs_g) + 9 * OrZero(m.fat_g))

\* Macros.estimated_kcal
EstimatedKcal(m) ==
    IF m.kcal # None THEN m.kcal
    ELSE IF m.protein_g = None /\ m.carbs_g = None /\ m.fat_g = None THEN None
    ELSE Some(4 * OrZero(m.protein_g) + 4 * OrZero(m.carbs_g) + 9 * OrZero(m.fat_g))

\* g = (goal or "balance").lower()
NormGoal(gl) == Lower(IF gl = <<>> THEN S_balance ELSE gl)

\* mutant of HighSugar: the sugar_ratio test is dropped
HighSugar_NoRatio(sugars, carbs) == sugars >= 15

\* high_sugar = sugars >= 15 and sugar_ratio >= 0.4,
\* sugar_ratio = (sugars / carbs) if carbs > 1.0 else 0.0   (10*s >= 4*c <=> s/c >= 0.4)
HighSugar(sugars, carbs) ==
    sugars >= 15 /\ (IF carbs > 1 THEN 10 * sugars >= 4 * carbs ELSE FALSE)

\* _choose_focus(macros, goal) -> (focus, rationale fragment)
ChooseFocus(m, gl) ==
    LET g       == NormGoal(gl)
        protein == OrZero(m.protein_g)
        carbs   == OrZero(m.carbs_g)
        sugars  == OrZero(m.sugars_g)
        fat     == OrZero(m.fat_g)
        carb_bias    == carbs >= 30
        protein_bias == protein >= 15
        fat_bias     == fat >= 15
        high_sugar   == HighSugar(sugars, carbs)
    IN  IF g \in {S_strength, S_power}
        THEN [focus |-> "strength",
              why |-> "You asked for strength, so we'll bias toward heavier sets and longer rests."]
        ELSE IF g \in {S_fat_loss, S_cut, S_lean, S_conditioning}
        THEN [focus |-> "conditioning",
              why |-> "Goal is conditioning/fat loss-more sustained heart rate with intervals."]
        ELSE IF g \in {S_muscle, S_hypertrophy, S_build}
        THEN [focus |-> "hypertrophy",
              why |-> "Goal is muscle gain-moderate loads, higher volume."]
        ELSE IF carb_bias /\ ~fat_bias
        THEN [focus |-> "conditioning",
              why |-> "Higher carbohydrate intake supports glycogen-fueled intervals and aerobic work today."]
        ELSE IF protein_bias /\ ~high_sugar
        THEN [focus |-> "strength",
              why |-> "Higher protein and lower sugar favor productive strength work with solid recovery."]
        ELSE IF fat_bias /\ ~carb_bias
        THEN [focus |-> "mixed",
              why |-> "Higher fats with modest carbs suggest a mixed session: brief intensity plus strength."]
        ELSE IF high_sugar
        THEN [focus |-> "conditioning",
              why |-> "Higher sugar spikes are well-utilized by short-to-mid interval conditioning."]
        ELSE IF carbs < 15 /\ protein < 10 /\ fat < 10
        THEN [focus |-> "active recovery",
              why |-> "This is a very low-energy food/drink. A light active recovery session (like a walk or stretching) is a great choice."]
        ELSE [focus |-> "mixed",
              why |-> "Balanced macros-today suits a mixed session (strength + conditioning)."]

\* mutant of ClampMinutes: the upper clamp is missing
ClampMinutes_NoUpper(mins) == Max2(15, IF mins = 0 THEN 30 ELSE mins)

\* m = max(15, min(75, int(minutes or 30)))
ClampMinutes(mins) == Max2(15, Min2(75, IF mins = 0 THEN 30 ELSE mins))

\* int(m * num/100) for the fractions 0.6, 0.25, 0.5, 0.35, 0.3, 0.4: on 15..75 the
\* float product truncates to the integer floor of m*num/100
Frac(m, num) == (m * num) \div 100

Block(label, mins) == [label |-> label, min |-> mins]

\* mutant of BlocksFor: the third block is emitted for any remainder of a minute or more
BlocksFor_AnyRemainder(fc, m) ==
    IF fc = "strength" THEN
        LET main == Max2(10, Frac(m, 60))
            aux  == Max2(5, Frac(m, 25))
            cond == m - main - aux
        IN  <<Block("Main Strength", main), Block("Accessory", aux)>>
            \o (IF cond >= 1 THEN <<Block("Light Conditioning", cond)>> ELSE <<>>)
    ELSE IF fc = "hypertrophy" THEN
        LET main  == Max2(10, Frac(m, 50))
            giant == Max2(5, Frac(m, 35))
            fin   == m - main - giant
        IN  <<Block("Hypertrophy Sets", main), Block("Volume Block", giant)>>
            \o (IF fin >= 1 THEN <<Block("Finisher", fin)>> ELSE <<>>)
    ELSE IF fc = "conditioning" THEN
        LET work  == Max2(8, Frac(m, 50))
            tempo == Max2(5, Frac(m, 30))
            core  == m - work - tempo
        IN  <<Block("Intervals", work), Block("Tempo", tempo)>>
            \o (IF core >= 1 THEN <<Block("Core/Carry", core)>> ELSE <<>>)
    ELSE IF fc = "active recovery" THEN
        <<Block("Light Cardio", Frac(m, 40)), Block("Mobility", Frac(m, 60))>>
    ELSE \* "mixed"
        LET strength == Max2(8, Frac(m, 35))
            metcon   == Max2(6, Frac(m, 35))
            mobility == m - strength - metcon
        IN  <<Block("Strength Primer", strength), Block("Short MetCon", metcon)>>
            \o (IF mobility >= 1 THEN <<Block("Mobility", mobility)>> ELSE <<>>)

\* the blocks list of _default_blocks_for_focus, per focus branch
BlocksFor(fc, m) ==
    IF fc = "strength" THEN
        LET main == Max2(10, Frac(m, 60))
            aux  == Max2(5, Frac(m, 25))
            cond == m - main - aux
        IN  <<Block("Main Strength", main), Block("Accessory", aux)>>
            \o (IF cond >= 5 THEN <<Block("Light Conditioning", cond)>> ELSE <<>>)
    ELSE IF fc = "hypertrophy" THEN
        LET main  == Max2(10, Frac(m, 50))
            giant == Max2(5, Frac(m, 35))
            fin   == m - main - giant
        IN  <<Block("Hypertrophy Sets", main), Block("Volume Block", giant)>>
            \o (IF fin >= 5 THEN <<Block("Finisher", fin)>> ELSE <<>>)
    ELSE IF fc = "conditioning" THEN
        LET work  == Max2(8, Frac(m, 50))
            tempo == Max2(5, Frac(m, 30))
            core  == m - work - tempo
        IN  <<Block("Intervals", work), Block("Tempo", tempo)>>
            \o (IF core >= 5 THEN <<Block("Core/Carry", core)>> ELSE <<>>)
    ELSE IF fc = "active recovery" THEN
        <<Block("Light Cardio", Frac(m, 40)), Block("Mobility", Frac(m, 60))>>
    ELSE \* "mixed"
        LET strength == Max2(8, Frac(m, 35))
            metcon   == Max2(6, Frac(m, 35))
            mobility == m - strength - metcon
        IN  <<Block("Strength Primer", strength), Block("Short MetCon", metcon)>>
            \o (IF mobility >= 5 THEN <<Block("Mobility", mobility)>> ELSE <<>>)

RationaleFor(fc) ==
    IF fc = "strength"
    THEN "Strength focus improves neural drive and mechanical tension. Keep form crisp; rest long."
    ELSE IF fc = "hypertrophy"
    THEN "Hypertrophy focus uses moderate loads and volume to maximize muscle stimulus."
    ELSE IF fc = "conditioning"
    THEN "Intervals + tempo train aerobic base and lactate clearance; great use of higher carbs/sugars."
    ELSE IF fc = "active recovery"
    THEN "This is a low-energy day, so we'll focus on light movement and mobility to aid recovery and feel good."
    ELSE "Mixed session balances force production with metabolic conditioning without overreaching."

\* mutant of IntensityFor: conditioning is not singled out
IntensityFor_NoHigh(fc) == IF fc = "active recovery" THEN "low" ELSE "moderate"

\* intensity = {...}.get(focus, "low")
IntensityFor(fc) ==
    IF fc \in {"strength", "hypertrophy", "mixed"} THEN "moderate"
    ELSE IF fc = "conditioning" THEN "high"
    ELSE "low"

\* the warm-up / cool-down lists _default_blocks_for_focus builds from the experience
\* tier; they are locals of that function and are not part of its return value
TierWarmup(experience_) ==
    LET exp == Lower(IF experience_ = <<>> THEN S_beginner ELSE experience_)
    IN  IF exp \in {S_beginner, S_novice}
        THEN [warmup |-> <<"5 min easy cardio",
                           "2 rounds: 10 air squats, 10 band pull-aparts, 10 hip hinges">>,
              cooldown |-> <<"3-5 min easy cardio", "2-3 stretches for the trained areas">>]
        ELSE [warmup |-> <<"4-6 min zone-1/2 cardio",
                           "Movement prep: dynamic splits, inchworms, band rows">>,
              cooldown |-> <<"Breathing down-shift (2-3 min)", "Light mobility in tight areas">>]

\* _default_blocks_for_focus(focus, minutes, experience) -> (blocks, rationale, intensity)
DefaultBlocksForFocus(fc, mins, experience_) ==
    LET m == ClampMinutes(mins)
    IN  [blocks |-> BlocksFor(fc, m), rationale |-> RationaleFor(fc), intensity |-> IntensityFor(fc)]

\* _nutrition_tip(macros, focus)
NutritionTip(m, fc) ==
    LET protein == OrZero(m.protein_g)
        carbs   == OrZero(m.carbs_g)
        sugars  == OrZero(m.sugars_g)
    IN  IF fc \in {"strength", "hypertrophy"}
        THEN [tip |-> "Have 20-35 g protein within ~2 hours post-lift; add 20-60 g carbs if doing volume.",
              caveat |-> IF protein < 15 THEN "protein looked low" ELSE ""]
        ELSE IF fc = "conditioning"
        THEN [tip |-> "Sip water; if intervals exceed 25-30 min, add electrolytes. Post-workout carbs (30-60 g) help.",
              caveat |-> IF sugars >= 15 /\ carbs >= 30 THEN "high sugars today" ELSE ""]
        ELSE IF fc = "active recovery"
        THEN [tip |-> "Great job on the light movement. Focus on hydration and a standard, balanced meal.",
              caveat |-> ""]
        ELSE [tip |-> "Balance plate post-session: lean protein, veggies, and a fist of carbs. Hydrate well.",
              caveat |-> ""]

\* mutant of PlanMinutes: the `or 30` default is missing
PlanMinutes_NoDefault(mins) == Max2(15, Min2(75, mins))

\* minutes=max(15, min(75, int(minutes or 30))) in the WorkoutPlan constructor
PlanMinutes(mins) == Max2(15, Min2(75, IF mins = 0 THEN 30 ELSE mins))

\* the WorkoutPlan that recommend_workout_from_context builds from the parsed macros
WorkoutPlanFor(m, gl, mins, experience_) ==
    LET fw == ChooseFocus(m, gl)
        b  == DefaultBlocksForFocus(fw.focus, mins, experience_)
    IN  [minutes       |-> PlanMinutes(mins),
         intensity     |-> b.intensity,
         focus         |-> fw.focus,
         blocks        |-> b.blocks,
         warmup        |-> <<"Joint CARs (neck/shoulders/hips) 30-45s each", "Light cardio 3-5 min">>,
         cooldown      |-> <<"Nasal breathing 2-3 min (box or 4-7-8)", "Targeted mobility 3-5 min">>,
         rationale     |-> <<fw.why, b.rationale>>,
         nutrition_tip |-> NutritionTip(m, fw.focus),
         kcal_est      |-> EstimatedKcal(m),
         experience    |-> experience_]

(***************************************************************************)
(* Inputs of the workout recommender.                                      *)
(***************************************************************************)
MaxGram == 40
MaxMinutes == 80

ProteinVals == {0, 9, 10, 14, 15, MaxGram}
CarbVals    == {0, 1, 2, 14, 15, 29, 30, 37, 38, MaxGram}
SugarVals   == {0, 11, 12, 14, 15, 16, MaxGram}
FatVals     == {0, 9, 10, 14, 15, MaxGram}
Opt(S) == {None} \cup {Some(v) : v \in S}

MkMacros(p, c, s, f, k) == [protein_g |-> p, carbs_g |-> c, sugars_g |-> s, fat_g |-> f, kcal |-> k]

\* goal strings: the override words, mixed-case spellings, the default, an unknown goal,
\* the empty goal and a goal with a trailing blank
GoalStrings ==
    {<<>>, S_balance, S_strength, S_power, S_fat_loss, S_cut, S_lean, S_conditioning,
     S_muscle, S_hypertrophy, S_build,
     <<"S","t","r","e","n","g","t","h">>, <<"B","U","I","L","D">>, <<"C","u","t">>,
     <<"c","u","t"," ">>, <<"k","e","t","o">>}

AllNoneMacros == MkMacros(None, None, None, None, None)

\* one Macros value per heuristic branch, for the plan builder
PlanMacros ==
    {AllNoneMacros,
     MkMacros(Some(5), Some(40), Some(5), Some(5), None),
     MkMacros(Some(20), Some(35), Some(5), Some(2), None),
     MkMacros(Some(20), Some(10), Some(2), Some(5), None),
     MkMacros(Some(5), Some(10), Some(2), Some(20), Some(250)),
     MkMacros(Some(12), Some(20), Some(5), Some(12), None)}
PlanGoals == {<<>>, S_balance, S_muscle}
ExperienceStrings == {<<>>, S_beginner, <<"N","o","v","i","c","e">>,
                      <<"a","d","v","a","n","c","e","d">>}
MinuteValues == (0 - 3)..MaxMinutes

IdleWorkout ==
    /\ macros = AllNoneMacros /\ goal = <<>> /\ minutes = 30 /\ experience = S_beginner
    /\ focus = None /\ plan = None
IdleTerms ==
    /\ query = <<>> /\ max_terms = 0 /\ terms = None /\ candidates = <<>>
    /\ seg = None /\ calls = 0
IdleRank ==
    /\ term = <<>> /\ foods = <<>>
    /\ best = [main |-> None, helpers |-> None]
    /\ scores = [main |-> None, helpers |-> None]
IdleParse ==
    /\ context = <<>> /\ parsed = None /\ kcal_est = None
IdleCache ==
    /\ USDA_API_KEY = FALSE /\ OPENFDA_API_KEY = FALSE
    /\ cache = [get_usda_nutrition |-> <<>>, get_openfoodfacts_info |-> <<>>,
                get_food_recalls_for_term |-> <<>>]
    /\ lookups = <<>> /\ driver = "" /\ fresh = 0
    /\ items = <<>> /\ do_recall = FALSE /\ do_nutrition = FALSE
    /\ out = <<>> /\ multi_calls = 0
IdleFdc ==
    /\ fdc_query = <<>> /\ fdc_provider = <<>>
    /\ all_hits = [main |-> <<>>, helpers |-> <<>>] /\ fdc_text = <<>>
    /\ fdc_data_type = <<>> /\ fdc_json = [main |-> <<>>, helpers |-> <<>>]
IdleOther == IdleCache /\ IdleFdc
IdleExtra == IdleParse /\ IdleOther

(***************************************************************************)
(* SpecFocus: _choose_focus applied to every macros value and goal.        *)
(***************************************************************************)
InitFocus ==
    /\ macros \in {MkMacros(p, c, s, f, None) :
                     p \in Opt(ProteinVals), c \in Opt(CarbVals),
                     s \in Opt(SugarVals), f \in Opt(FatVals)}
    /\ goal \in GoalStrings
    /\ minutes = 30 /\ experience = S_beginner
    /\ focus = None /\ plan = None
    /\ IdleTerms /\ IdleRank /\ IdleExtra

CallChooseFocus ==
    /\ focus = None
    /\ focus' = Some(ChooseFocus(macros, goal))
    /\ UNCHANGED <<macros, goal, minutes, experience, plan, tvars, rvars, xvars>>

NextFocus == CallChooseFocus
SpecFocus == InitFocus /\ [][NextFocus]_vars

(***************************************************************************)
(* workout_recommender.py: parse_macros_from_context.                      *)
(* A parsed float is held exactly as [m, e], standing for m / 10^e, with   *)
(* the least e possible (e = 0 for a whole number).                        *)
(***************************************************************************)
\* _MACRO_KEYS
MACRO_KEYS ==
    [protein |-> <<<<"p","r","o","t","e","i","n">>>>,
     carbs |-> <<<<"c","a","r","b","s">>,
                  <<"c","a","r","b","o","h","y","d","r","a","t","e",","," ","b","y"," ","d","i","f","f","e","r","e","n","c","e">>,
                  <<"c","a","r","b","o","h","y","d","r","a","t","e","s">>>>,
     sugars |-> <<<<"s","u","g","a","r","s">>,
                  <<"t","o","t","a","l"," ","s","u","g","a","r","s">>,
                  <<"s","u","g","a","r">>>>,
     fat |-> <<<<"f","a","t">>,
                  <<"t","o","t","a","l"," ","l","i","p","i","d"," ","(","f","a","t",")">>,
                  <<"l","i","p","i","d">>,
                  <<"t","o","t","a","l"," ","f","a","t">>>>,
     kcal |-> <<<<"e","n","e","r","g","y">>,
                  <<"c","a","l","o","r","i","e","s">>,
                  <<"k","c","a","l">>>>]

IsDigit(c) == c \in {"0","1","2","3","4","5","6","7","8","9"}

DigitVal(c) ==
    CASE c = "0" -> 0 [] c = "1" -> 1 [] c = "2" -> 2 [] c = "3" -> 3 [] c = "4" -> 4
      [] c = "5" -> 5 [] c = "6" -> 6 [] c = "7" -> 7 [] c = "8" -> 8 [] c = "9" -> 9

\* the value of a digit string
RECURSIVE DigitsVal(_)
DigitsVal(ds) ==
    IF ds = <<>> THEN 0 ELSE 10 * DigitsVal(SubSeq(ds, 1, Len(ds) - 1)) + DigitVal(ds[Len(ds)])

RECURSIVE Pow10(_)
Pow10(n) == IF n = 0 THEN 1 ELSE 10 * Pow10(n - 1)

\* \d+ matched greedily from position i (a digit): the last position of the run
RECURSIVE DigitRunEnd(_, _)
DigitRunEnd(s, i) == IF i < Len(s) /\ IsDigit(s[i + 1]) THEN DigitRunEnd(s, i + 1) ELSE i

RECURSIVE StripTrailingZeros(_)
StripTrailingZeros(ds) ==
    IF ds # <<>> /\ ds[Len(ds)] = "0" THEN StripTrailingZeros(SubSeq(ds, 1, Len(ds) - 1)) ELSE ds

\* float(text) for text matching -?\d+(?:\.\d+)?
FloatOf(neg, intDigits, fracDigits) ==
    LET fr   == StripTrailingZeros(fracDigits)
        sign == IF neg THEN 0 - 1 ELSE 1
    IN  [m |-> sign * (DigitsVal(intDigits) * Pow10(Len(fr)) + DigitsVal(fr)), e |-> Len(fr)]

\* mutant of ExtractNumber: the sign is not part of the number
ExtractNumber_NoSign(s) ==
    LET starts == {i \in 1..Len(s) : IsDigit(s[i])}
    IN  IF starts = {} THEN None
        ELSE LET d0   == CHOOSE i \in starts : \A j \in starts : i <= j
                 d1   == DigitRunEnd(s, d0)
                 frac == d1 + 2 <= Len(s) /\ s[d1 + 1] = "." /\ IsDigit(s[d1 + 2])
             IN  Some(FloatOf(FALSE, SubSeq(s, d0, d1),
                              IF frac THEN SubSeq(s, d1 + 2, DigitRunEnd(s, d1 + 2)) ELSE <<>>))

\* _extract_number: the leftmost match of -?\d+(?:\.\d+)? as a float, or None
ExtractNumber(s) ==
    LET starts == {i \in 1..Len(s) :
                     \/ IsDigit(s[i])
                     \/ s[i] = "-" /\ i < Len(s) /\ IsDigit(s[i + 1])}
    IN  IF starts = {} THEN None
        ELSE LET i0   == CHOOSE i \in starts : \A j \in starts : i <= j
                 neg  == s[i0] = "-"
                 d0   == IF neg THEN i0 + 1 ELSE i0
                 d1   == DigitRunEnd(s, d0)
                 frac == d1 + 2 <= Len(s) /\ s[d1 + 1] = "." /\ IsDigit(s[d1 + 2])
             IN  Some(FloatOf(neg, SubSeq(s, d0, d1),
                              IF frac THEN SubSeq(s, d1 + 2, DigitRunEnd(s, d1 + 2)) ELSE <<>>))

\* the first position at or after i holding a line break (Len(s) + 1 if none)
NextBreak(s, i) ==
    LET bs == {b \in i..Len(s) : s[b] = "\n" \/ s[b] = "\r"}
    IN  IF bs = {} THEN Len(s) + 1 ELSE CHOOSE b \in bs : \A x \in bs : b <= x

\* str.splitlines() for the line breaks \n, \r and \r\n
RECURSIVE SplitLinesFrom(_, _)
SplitLinesFrom(s, i) ==
    IF i > Len(s) THEN <<>>
    ELSE LET b   == NextBreak(s, i)
             nxt == IF b < Len(s) /\ s[b] = "\r" /\ s[b + 1] = "\n" THEN b + 2 ELSE b + 1
         IN  <<SubSeq(s, i, b - 1)>> \o SplitLinesFrom(s, nxt)

SplitLines(s) == SplitLinesFrom(s, 1)

\* lines = [ln.strip() for ln in text.splitlines() if ln.strip()]
StrippedLines(text) ==
    SelectSeq([i \in 1..Len(SplitLines(text)) |-> Strip(SplitLines(text)[i])], LAMBDA ln : ln # <<>>)

LineHasKey(ln, keys) == \E k \in 1..Len(keys) : Contains(Lower(ln), keys[k])

\* mutant of FindLineForKey: the last line holding a synonym
FindLineForKey_Last(text, keys) ==
    LET lines == StrippedLines(text)
        hits  == {i \in 1..Len(lines) : LineHasKey(lines[i], keys)}
    IN  IF hits = {} THEN None ELSE Some(lines[CHOOSE i \in hits : \A j \in hits : j <= i])

\* _find_line_for_key: the first stripped non-blank line holding a synonym, or None
FindLineForKey(text, keys) ==
    LET lines == StrippedLines(text)
        hits  == {i \in 1..Len(lines) : LineHasKey(lines[i], keys)}
    IN  IF hits = {} THEN None ELSE Some(lines[CHOOSE i \in hits : \A j \in hits : i <= j])

IsDelim(c) == c = ":" \/ c = "-"
IsBreak(c) == c = "\n" \/ c = "\r"
\* \s of the regular expressions, on the characters of the model
IsReSpace(c) == c = " " \/ c = "\n" \/ c = "\r"

\* the first position at or after i that holds no \s character (Len(s) + 1 if none)
RECURSIVE SkipSpace(_, _)
SkipSpace(s, i) == IF i <= Len(s) /\ IsReSpace(s[i]) THEN SkipSpace(s, i + 1) ELSE i

\* the last position of the run of non-break characters starting at i
RECURSIVE NonBreakEnd(_, _)
NonBreakEnd(s, i) == IF i < Len(s) /\ ~IsBreak(s[i + 1]) THEN NonBreakEnd(s, i + 1) ELSE i

\* group 1 of [:\-]\s*([^\n\r]+) matched at the delimiter at position d, or None:
\* \s* gives characters back when nothing but blanks follows on the line
DelimGroupAt(s, d) ==
    LET a == SkipSpace(s, d + 1)
    IN  IF a <= Len(s) /\ ~IsBreak(s[a]) THEN Some(SubSeq(s, a, NonBreakEnd(s, a)))
        ELSE IF \E b \in (d + 1)..(a - 1) : ~IsBreak(s[b])
        THEN LET b0 == CHOOSE b \in (d + 1)..(a - 1) :
                          /\ ~IsBreak(s[b])
                          /\ \A c \in (d + 1)..(a - 1) : ~IsBreak(s[c]) => c <= b
             IN  Some(SubSeq(s, b0, NonBreakEnd(s, b0)))
        ELSE None

\* the leftmost match of [:\-]\s*([^\n\r]+) in s: its group 1, or None
DelimSearch(s) ==
    LET ds == {d \in 1..Len(s) : IsDelim(s[d]) /\ DelimGroupAt(s, d) # None}
    IN  IF ds = {} THEN None ELSE DelimGroupAt(s, CHOOSE d \in ds : \A x \in ds : d <= x)

\* the leftmost match of <k>\s*[:\-]\s*([^\n\r]+) in low: its group 1, or None
KeySearch(low, k) ==
    LET ps == {p \in 1..Len(low) :
                 /\ p + Len(k) - 1 <= Len(low)
                 /\ SubSeq(low, p, p + Len(k) - 1) = k
                 /\ LET d == SkipSpace(low, p + Len(k))
                    IN  d <= Len(low) /\ IsDelim(low[d]) /\ DelimGroupAt(low, d) # None}
    IN  IF ps = {} THEN None
        ELSE LET p0 == CHOOSE p \in ps : \A x \in ps : p <= x
             IN  DelimGroupAt(low, SkipSpace(low, p0 + Len(k)))

\* mutant of GrabDirect: a key that is not found reads as zero
GrabDirect_Zero(ctx_low, keys, i) == Some([m |-> 0, e |-> 0])

\* grab, when no line holds a synonym: the first synonym, in list order, that the
\* lower-cased text matches decides
RECURSIVE GrabDirect(_, _, _)
GrabDirect(ctx_low, keys, i) ==
    IF i > Len(keys) THEN None
    ELSE IF KeySearch(ctx_low, keys[i]) # None THEN ExtractNumber(KeySearch(ctx_low, keys[i])[1])
    ELSE GrabDirect(ctx_low, keys, i + 1)

\* grab(keys) of parse_macros_from_context
Grab(ctx, keys) ==
    LET line == FindLineForKey(ctx, keys)
    IN  IF line = None THEN GrabDirect(Lower(ctx), keys, 1)
        ELSE IF DelimSearch(line[1]) # None THEN ExtractNumber(DelimSearch(line[1])[1])
        ELSE ExtractNumber(line[1])

\* parse_macros_from_context
ParseMacros(ctx) ==
    MkMacros(Grab(ctx, MACRO_KEYS.protein), Grab(ctx, MACRO_KEYS.carbs),
             Grab(ctx, MACRO_KEYS.sugars), Grab(ctx, MACRO_KEYS.fat), Grab(ctx, MACRO_KEYS.kcal))

\* every parsed field holds a whole number
WholeMacros(m) ==
    \A v \in {m.protein_g, m.carbs_g, m.sugars_g, m.fat_g, m.kcal} : v # None => v[1].e = 0

\* the Macros object with its whole floats as integers
WholeOf(v) == IF v = None THEN None ELSE Some(v[1].m)
GramMacros(m) ==
    MkMacros(WholeOf(m.protein_g), WholeOf(m.carbs_g), WholeOf(m.sugars_g), WholeOf(m.fat_g),
             WholeOf(m.kcal))

(***************************************************************************)
(* Nutrition-context texts for the plan builder: one labelled line per     *)
(* defined field of a Macros value, and texts that name no macro.          *)
(***************************************************************************)
DigitChar(d) ==
    CASE d = 0 -> "0" [] d = 1 -> "1" [] d = 2 -> "2" [] d = 3 -> "3" [] d = 4 -> "4"
      [] d = 5 -> "5" [] d = 6 -> "6" [] d = 7 -> "7" [] d = 8 -> "8" [] d = 9 -> "9"

\* the decimal digits of a natural number
RECURSIVE DigitsOf(_)
DigitsOf(n) == IF n < 10 THEN <<DigitChar(n)>> ELSE DigitsOf(n \div 10) \o <<DigitChar(n % 10)>>

LabelledLine(label, v, unit) ==
    IF v = None THEN <<>> ELSE <<label \o <<":", " ">> \o DigitsOf(v[1]) \o <<" ">> \o unit>>

\* "\n".join(lines)
RECURSIVE JoinLines(_)
JoinLines(ls) ==
    IF ls = <<>> THEN <<>>
    ELSE IF Len(ls) = 1 THEN ls[1]
    ELSE ls[1] \o <<"\n">> \o JoinLines(Tail(ls))

ContextOf(m) ==
    JoinLines(LabelledLine(<<"P","r","o","t","e","i","n">>, m.protein_g, <<"g">>)
              \o LabelledLine(<<"C","a","r","b","o","h","y","d","r","a","t","e","s">>, m.carbs_g, <<"g">>)
              \o LabelledLine(<<"T","o","t","a","l"," ","S","u","g","a","r","s">>, m.sugars_g, <<"g">>)
              \o LabelledLine(<<"T","o","t","a","l"," ","F","a","t">>, m.fat_g, <<"g">>)
              \o LabelledLine(<<"E","n","e","r","g","y">>, m.kcal, <<"k","c","a","l">>))

\* texts without any macro synonym: empty, blank lines, a line about something else
NoMacroContexts ==
    {<<>>, <<" ","\n"," "," ">>, <<"s","e","r","v","i","n","g"," ","1","0","0"," ","g">>}

PlanContexts == {ContextOf(m) : m \in PlanMacros} \cup NoMacroContexts

(***************************************************************************)
(* SpecWorkout: recommend_workout_from_context on a nutrition context.     *)
(***************************************************************************)
InitWorkout ==
    /\ context \in PlanContexts
    /\ macros = AllNoneMacros /\ parsed = None /\ kcal_est = None
    /\ goal \in PlanGoals
    /\ minutes \in MinuteValues
    /\ experience \in ExperienceStrings
    /\ focus = None /\ plan = None
    /\ IdleTerms /\ IdleRank /\ IdleOther

\* recommend_workout_from_context: parse the context, choose the focus, build the plan
RecommendWorkout ==
    /\ plan = None
    /\ parsed' = Some(ParseMacros(context))
    /\ macros' = GramMacros(ParseMacros(context))
    /\ focus' = Some(ChooseFocus(macros', goal))
    /\ kcal_est' = Some(EstimatedKcal(macros'))
    /\ plan' = Some(WorkoutPlanFor(macros', goal, minutes, experience))
    /\ UNCHANGED <<context, goal, minutes, experience, tvars, rvars, yvars>>

NextWorkout == RecommendWorkout
SpecWorkout == InitWorkout /\ [][NextWorkout]_vars

(***************************************************************************)
(* Claims about the workout recommender.                                   *)
(***************************************************************************)
MacrosDefined(m) ==
    m.protein_g # None /\ m.carbs_g # None /\ m.sugars_g # None /\ m.fat_g # None

\* The decision table of the claim: <<condition, focus>> in the stated order, for macro
\* values p, c, s, f and a goal word g; the last rule always matches.
C1_HighSugar(s, c) == s >= 15 /\ c > 1 /\ 5 * s >= 2 * c
C1_Rules(p, c, s, f, g) ==
    << <<g \in {S_strength, S_power}, "strength">>,
       <<g \in {S_fat_loss, S_cut, S_lean, S_conditioning}, "conditioning">>,
       <<g \in {S_muscle, S_hypertrophy, S_build}, "hypertrophy">>,
       <<c >= 30 /\ f < 15, "conditioning">>,
       <<p >= 15 /\ ~C1_HighSugar(s, c), "strength">>,
       <<f >= 15 /\ c < 30, "mixed">>,
       <<C1_HighSugar(s, c), "conditioning">>,
       <<c < 15 /\ p < 10 /\ f < 10, "active recovery">>,
       <<TRUE, "mixed">> >>
C1_FirstMatch(rules) ==
    rules[CHOOSE i \in 1..Len(rules) : rules[i][1] /\ \A j \in 1..(i - 1) : ~rules[j][1]][2]
C1_Claimed(m, g) ==
    C1_FirstMatch(C1_Rules(m.protein_g[1], m.carbs_g[1], m.sugars_g[1], m.fat_g[1], g))

\* C1 (as stated): for every macros value with non-negative numbers and every goal string,
\* choose_focus returns the focus of the first rule of the table that matches, the goal
\* rules testing the goal string itself for membership in the three override sets.
C1_Original ==
    (focus # None /\ MacrosDefined(macros)) =>
        focus[1].focus = C1_Claimed(macros, goal)

\* C1 (amended): the same first-match table, with the goal rules testing the lower-cased
\* goal (an empty goal read as "balance"); in particular carbs=40, fat=5, protein=5 with
\* goal balance gives conditioning and carbs=10, protein=5, fat=5 gives active recovery.
C1_FocusFirstMatch ==
    (focus # None /\ MacrosDefined(macros)) =>
        /\ focus[1].focus = C1_Claimed(macros, Lower(IF goal = <<>> THEN S_balance ELSE goal))
        /\ (/\ goal = S_balance /\ macros.carbs_g = Some(40)
            /\ macros.fat_g = Some(5) /\ macros.protein_g = Some(5))
              => focus[1].focus = "conditioning"
        /\ (/\ goal = S_balance /\ macros.carbs_g = Some(10)
            /\ macros.fat_g = Some(5) /\ macros.protein_g = Some(5))
              => focus[1].focus = "active recovery"

\* C1 witness: choose_focus has run on a high-sugar, low-carb food with the default goal and
\* the high-sugar rule (the 7th) decided.
C1_Witness ==
    /\ focus # None /\ goal = S_balance
    /\ macros = MkMacros(Some(0), Some(15), Some(15), Some(0), None)
    /\ focus[1].focus = "conditioning"

C2_Clamp(n) == IF n < 15 THEN 15 ELSE IF n > 75 THEN 75 ELSE n

\* C2 (as stated): for every integer minutes, the minutes stored in the plan is the clamp of
\* the input to [15,75], 15 for every input below 15 including 0.
C2_Original ==
    plan # None => plan[1].minutes = C2_Clamp(minutes)

\* C2 (amended): for every non-zero integer minutes the minutes stored in the plan, and used
\* to allocate the blocks, is the clamp of the input to [15,75]; minutes = 0 is read as
\* "not given" and yields the default 30.
C2_MinutesClamped ==
    plan # None =>
        /\ minutes # 0 => plan[1].minutes = C2_Clamp(minutes)
        /\ minutes = 0 => plan[1].minutes = 30
        /\ plan[1].blocks = BlocksFor(plan[1].focus, plan[1].minutes)

\* a plan has been built for minutes = 0
C2_Witness ==
    plan # None /\ minutes = 0 /\ plan[1].minutes = 30

RECURSIVE SumMin(_)
SumMin(bs) == IF bs = <<>> THEN 0 ELSE Head(bs).min + SumMin(Tail(bs))

\* C3: for every focus and every input minutes, every block minute count of the plan is
\* non-negative and the block minute counts sum to at most the plan's (clamped) minutes,
\* hence to at most 75.
C3_BlocksWithinMinutes ==
    plan # None =>
        /\ \A i \in 1..Len(plan[1].blocks) : plan[1].blocks[i].min >= 0
        /\ SumMin(plan[1].blocks) <= plan[1].minutes
        /\ SumMin(plan[1].blocks) <= 75
        /\ plan[1].focus \in {"strength", "hypertrophy", "conditioning", "mixed", "active recovery"}

\* C3 witness: a strength plan built for an input above 75 minutes, with all three blocks.
C3_Witness ==
    /\ plan # None /\ minutes > 75 /\ plan[1].focus = "strength"
    /\ Len(plan[1].blocks) = 3 /\ SumMin(plan[1].blocks) = 75

(***************************************************************************)
(* multi_parser.py: extract_product_search_terms_multi                     *)
(***************************************************************************)
\* _STOPWORDS
STOPWORDS ==
    {<<"n","u","t","r","i","t","i","o","n">>,
     <<"n","u","t","r","i","t","i","o","n","a","l">>,
     <<"i","n","g","r","e","d","i","e","n","t","s">>,
     <<"i","n","g","r","e","d","i","e","n","t">>,
     <<"i","n","f","o">>,
     <<"i","n","f","o","r","m","a","t","i","o","n">>,
     <<"a","l","l","e","r","g","e","n","s">>,
     <<"r","e","c","a","l","l">>,
     <<"r","e","c","a","l","l","s">>,
     <<"w","o","r","k","o","u","t">>,
     <<"e","x","e","r","c","i","s","e">>,
     <<"t","r","a","i","n">>,
     <<"g","y","m">>,
     <<"w","o","r","k">>,
     <<"o","u","t">>,
     <<"e","x","c","e","r","c","i","s","e">>,
     <<"f","o","r">>,
     <<"o","n">>,
     <<"o","f">>,
     <<"a","b","o","u","t">>,
     <<"i","n">>,
     <<"w","h","a","t">>,
     <<"i","s">>,
     <<"a","r","e">>,
     <<"t","h","e">>,
     <<"a">>,
     <<"a","n">>,
     <<"i">>,
     <<"a","t","e">>,
     <<"e","a","t">>,
     <<"e","a","t","i","n","g">>,
     <<"s","h","o","u","l","d">>,
     <<"h","o","w">>,
     <<"m","e">>,
     <<"m","y">>,
     <<"g","i","v","e">>,
     <<"t","e","l","l">>,
     <<"s","h","o","w">>,
     <<"c","a","n">>,
     <<"a","f","t","e","r">>,
     <<"p","l","e","a","s","e">>,
     <<"a","n","d">>,
     <<"d","r","a","n","k">>,
     <<"d","r","i","n","k">>,
     <<"h","a","d">>,
     <<"p","l","a","n">>}

\* _LIST_SEP = re.compile(r",| and | & ", flags=re.IGNORECASE):
\* the length of the separator matching at position i of s, 0 when none matches
SepLenAt(s, i) ==
    IF s[i] = "," THEN 1
    ELSE IF i + 4 <= Len(s) /\ Lower(SubSeq(s, i, i + 4)) = <<" ","a","n","d"," ">> THEN 5
    ELSE IF i + 2 <= Len(s) /\ SubSeq(s, i, i + 2) = <<" ","&"," ">> THEN 3
    ELSE 0

\* _LIST_SEP.split(s): left-to-right, non-overlapping matches; empty pieces are kept
RECURSIVE ListSepSplitAcc(_, _, _, _)
ListSepSplitAcc(s, i, cur, acc) ==
    IF i > Len(s) THEN Append(acc, cur)
    ELSE LET n == SepLenAt(s, i)
         IN  IF n > 0 THEN ListSepSplitAcc(s, i + n, <<>>, Append(acc, cur))
             ELSE ListSepSplitAcc(s, i + 1, Append(cur, s[i]), acc)
ListSepSplit(s) == ListSepSplitAcc(s, 1, <<>>, <<>>)

\* re.sub(r"\?", "", s)
RECURSIVE RemoveQuestionMarks(_)
RemoveQuestionMarks(s) ==
    IF s = <<>> THEN <<>>
    ELSE IF Head(s) = "?" THEN RemoveQuestionMarks(Tail(s))
    ELSE <<Head(s)>> \o RemoveQuestionMarks(Tail(s))

\* re.sub(r"\s+", " ", s)
RECURSIVE CollapseSpaces(_)
CollapseSpaces(s) ==
    IF s = <<>> THEN <<>>
    ELSE IF IsSpace(Head(s)) THEN <<" ">> \o CollapseSpaces(LStrip(s))
    ELSE <<Head(s)>> \o CollapseSpaces(Tail(s))

\* _clean_phrase
CleanPhrase(s) == Strip(CollapseSpaces(RemoveQuestionMarks(Lower(Strip(s)))))

\* _is_stop_phrase
IsStopPhrase(phrase) ==
    LET words == SplitWs(Lower(phrase))
    IN  words = <<>> \/ \A i \in 1..Len(words) : words[i] \in STOPWORDS

\* mutant of DropLeadingStopwords: leading stopwords are kept
DropLeadingStopwords_Keep(words) == words

\* while words and words[0] in _STOPWORDS: words.pop(0)
RECURSIVE DropLeadingStopwords(_)
DropLeadingStopwords(words) ==
    IF words # <<>> /\ Head(words) \in STOPWORDS THEN DropLeadingStopwords(Tail(words))
    ELSE words

\* parts = [p for p in _LIST_SEP.split(q) if p.strip()]; if not parts or len(parts) == 1: parts = [q]
QueryParts(q) ==
    LET parts == SelectSeq(ListSepSplit(q), LAMBDA p : Strip(p) # <<>>)
    IN  IF Len(parts) <= 1 THEN <<q>> ELSE parts

\* phrases of a candidates list (entries carry their provenance: src and index)
RECURSIVE Phrases(_)
Phrases(cands) == IF cands = <<>> THEN <<>> ELSE <<Head(cands).phrase>> \o Phrases(Tail(cands))

Cand(phrase, src, idx) == [phrase |-> phrase, src |-> src, idx |-> idx]

\* the first loop: for p in parts: ... candidates.append(final_phrase)
RECURSIVE SplitLoop(_, _, _)
SplitLoop(parts, i, cands) ==
    IF i > Len(parts) THEN cands
    ELSE LET cleaned      == CleanPhrase(parts[i])
             final_phrase == Strip(JoinSp(DropLeadingStopwords(SplitWs(cleaned))))
         IN  IF cleaned # <<>> /\ ~IsStopPhrase(cleaned)
                /\ final_phrase # <<>> /\ ~InList(Phrases(cands), final_phrase)
             THEN SplitLoop(parts, i + 1, Append(cands, Cand(final_phrase, "split", i)))
             ELSE SplitLoop(parts, i + 1, cands)
SplitCandidates(q) == SplitLoop(QueryParts(q), 1, <<>>)

\* mutant of ShortCircuits: off by one, three candidates are needed
ShortCircuits_MoreThanTwo(cands) == Len(cands) > 2

\* if candidates and len(candidates) > 1: return candidates[:max_terms]
ShortCircuits(cands) == Len(cands) > 1

(***************************************************************************)
(* The phrase segmenter, nlp(q.lower()) (spaCy, an external library).      *)
(* Tokens: whitespace-separated words with punctuation split off; each     *)
(* token records whether whitespace follows it.  noun_chunks and the       *)
(* part-of-speech tags are chosen by the environment: any sequence of      *)
(* disjoint token spans in document order, any set of noun tokens.         *)
(***************************************************************************)
IsPunct(c) == c \in {",", "?", "&"}

Tok(text, ws) == [text |-> text, ws |-> ws]

RECURSIVE DocTokensAcc(_, _, _)
DocTokensAcc(s, cur, acc) ==
    IF s = <<>> THEN (IF cur = <<>> THEN acc ELSE Append(acc, Tok(cur, FALSE)))
    ELSE IF IsSpace(Head(s))
         THEN DocTokensAcc(Tail(s), <<>>,
                  IF cur # <<>> THEN Append(acc, Tok(cur, TRUE))
                  ELSE IF acc # <<>> THEN [acc EXCEPT ![Len(acc)].ws = TRUE]
                  ELSE acc)
    ELSE IF IsPunct(Head(s))
         THEN DocTokensAcc(Tail(s), <<>>,
                  Append(IF cur = <<>> THEN acc ELSE Append(acc, Tok(cur, FALSE)),
                         Tok(<<Head(s)>>, FALSE)))
    ELSE DocTokensAcc(Tail(s), Append(cur, Head(s)), acc)
DocTokens(s) == DocTokensAcc(s, <<>>, <<>>)

\* chunk.text: the tokens of the span with the whitespace between them
RECURSIVE ChunkText(_, _, _)
ChunkText(doc, a, b) ==
    IF a > b THEN <<>>
    ELSE doc[a].text \o (IF doc[a].ws /\ a < b THEN <<" ">> ELSE <<>>) \o ChunkText(doc, a + 1, b)

\* mutant of NonStopTexts: the stopword filter is missing
RECURSIVE NonStopTexts_KeepAll(_, _, _)
NonStopTexts_KeepAll(doc, a, b) ==
    IF a > b THEN <<>> ELSE <<doc[a].text>> \o NonStopTexts_KeepAll(doc, a + 1, b)

\* [t.text for t in chunk if t.text not in _STOPWORDS]
RECURSIVE NonStopTexts(_, _, _)
NonStopTexts(doc, a, b) ==
    IF a > b THEN <<>>
    ELSE (IF doc[a].text \in STOPWORDS THEN <<>> ELSE <<doc[a].text>>)
         \o NonStopTexts(doc, a + 1, b)

\* the second loop: for chunk in doc.noun_chunks: ...
RECURSIVE ChunkLoop(_, _, _, _)
ChunkLoop(doc, chunks, i, cands) ==
    IF i > Len(chunks) THEN cands
    ELSE LET a == chunks[i][1]
             b == chunks[i][2]
             phrase == Strip(JoinSp(NonStopTexts(doc, a, b)))
         IN  IF IsStopPhrase(ChunkText(doc, a, b)) THEN ChunkLoop(doc, chunks, i + 1, cands)
             ELSE IF /\ phrase # <<>>
                     /\ ~InList(Phrases(cands), phrase)
                     /\ ~\E j \in 1..Len(cands) : Contains(cands[j].phrase, phrase)
             THEN ChunkLoop(doc, chunks, i + 1, Append(cands, Cand(phrase, "chunk", i)))
             ELSE ChunkLoop(doc, chunks, i + 1, cands)

\* tokens = [t.text for t in doc if t.pos_ in {"NOUN", "PROPN"} and t.text not in _STOPWORDS]
\* (nouns: the set of token indices tagged NOUN or PROPN)
RECURSIVE NounTokensFrom(_, _, _)
NounTokensFrom(doc, nouns, i) ==
    IF i > Len(doc) THEN <<>>
    ELSE (IF i \in nouns /\ doc[i].text \notin STOPWORDS
          THEN <<Cand(doc[i].text, "token", i)>> ELSE <<>>)
         \o NounTokensFrom(doc, nouns, i + 1)
\* mutant of NounTokens: the stopword filter is missing
NounTokens_KeepStop(doc, nouns) ==
    LET ix == {i \in 1..Len(doc) : i \in nouns}
        RECURSIVE From(_)
        From(i) == IF i > Len(doc) THEN <<>>
                   ELSE (IF i \in ix THEN <<Cand(doc[i].text, "token", i)>> ELSE <<>>) \o From(i + 1)
    IN  From(1)

NounTokens(doc, nouns) == NounTokensFrom(doc, nouns, 1)

\* the final loop: seen = set(); final = []; ... (order-preserving de-duplication)
RECURSIVE DedupAcc(_, _)
DedupAcc(l, acc) ==
    IF l = <<>> THEN acc
    ELSE DedupAcc(Tail(l), IF InList(acc, Head(l)) THEN acc ELSE Append(acc, Head(l)))
Dedup(l) == DedupAcc(l, <<>>)

\* mutant of FinalTerms: the [:max_terms] slice is missing
FinalTerms_NoSlice(cands, n) == Dedup(Phrases(cands))

\* return final[:max_terms]
FinalTerms(cands, n) == Take(Dedup(Phrases(cands)), n)

(***************************************************************************)
(* Inputs of the term extractor.                                           *)
(***************************************************************************)
MaxWords == 3
MaxTerms == 2
MaxChunks == 2
MaxCalls == 2

\* two food words, a stopword, and the word "and" (a separator between blanks)
CoreVocab ==
    {<<"b","e","e","f">>, <<"r","i","c","e">>, <<"o","n">>, <<"a","n","d">>}

\* the spec's example; upper case with a question mark; a trailing stopword before a
\* separator; padding; the "&" separator; a stopword outside CoreVocab; commas with and
\* without blanks; a repeated phrase; stopword-only parts around two commas; stopwords
\* inside and at the end of a phrase
ExtraQueries ==
    {<<"r","e","c","a","l","l"," ","o","n"," ","c","h","i","c","k","e","n"," ","a","n","d"," ","b","e","e","f">>,
     <<"B","e","e","f","?"," ","A","N","D"," ","r","i","c","e">>,
     <<"b","e","e","f"," ","o","n"," ",","," ","r","i","c","e">>,
     <<" "," ","b","e","e","f"," "," ">>,
     <<"b","e","e","f"," ","&"," ","r","i","c","e">>,
     <<"t","h","e">>,
     <<"b","e","e","f",",","r","i","c","e">>,
     <<"b","e","e","f"," ",","," ","r","i","c","e">>,
     <<"o","n"," ",","," ","b","e","e","f">>,
     <<"b","e","e","f"," ",","," ","b","e","e","f">>,
     <<"o","n",",",",","o","n">>,
     <<"b","e","e","f"," ","o","n"," ","r","i","c","e"," ","o","n">>}

WordSeqs == UNION {[1..n -> CoreVocab] : n \in 0..MaxWords}
Queries == {JoinSp(ws) : ws \in WordSeqs} \cup ExtraQueries

\* doc.noun_chunks: every sequence of at most k disjoint spans <<a, b>> of the tokens
\* lo..n, in document order
RECURSIVE ChunkSeqs(_, _, _)
ChunkSeqs(lo, n, k) ==
    {<<>>} \cup
    (IF k = 0 THEN {}
     ELSE UNION {{<<sp>> \o rest : rest \in ChunkSeqs(sp[2] + 1, n, k - 1)} :
                   sp \in {<<a, b>> : a \in lo..n, b \in lo..n} \cap {x \in (lo..n) \X (lo..n) : x[1] <= x[2]}})

(***************************************************************************)
(* SpecTerms: extract_product_search_terms_multi(query, max_terms).        *)
(***************************************************************************)
InitTerms ==
    /\ query \in Queries
    /\ max_terms \in 0..MaxTerms
    /\ terms = None /\ candidates = <<>> /\ seg = None /\ calls = 0
    /\ IdleWorkout /\ IdleRank /\ IdleExtra

\* the candidates list at the end of the segmenter path: the chunk loop, then the token
\* fallback (if not candidates and tokens: candidates.extend(tokens))
SegmenterCandidates(doc, sc, chunks, nouns) ==
    LET c2     == ChunkLoop(doc, chunks, 1, sc)
        tokens == NounTokens(doc, nouns)
    IN  IF c2 = <<>> /\ tokens # <<>> THEN tokens ELSE c2

\* One call of extract_product_search_terms_multi.  The segmenter is consulted only when
\* the separator split did not short-circuit.  It is a function of the text: the first
\* call draws its answer (seg), a repeated call gets the same answer.  Its part-of-speech
\* tags are read only by the token fallback, so they are drawn only when the candidates
\* list is empty after the chunk loop.
ExtractTerms ==
    /\ calls < MaxCalls
    /\ calls' = calls + 1
    /\ LET q  == Strip(query)
           sc == SplitCandidates(q)
       IN  IF ShortCircuits(sc)
           THEN /\ terms' = Some(Take(Phrases(sc), max_terms))
                /\ candidates' = sc
                /\ seg' = None
           ELSE LET doc == DocTokens(Lower(q))
                IN  IF seg # None
                    THEN LET c3 == SegmenterCandidates(doc, sc, seg[1].chunks, seg[1].nouns)
                         IN  /\ terms' = Some(FinalTerms(c3, max_terms))
                             /\ candidates' = c3
                             /\ seg' = seg
                    ELSE \E chunks \in ChunkSeqs(1, Len(doc), MaxChunks) :
                           \E nouns \in (IF ChunkLoop(doc, chunks, 1, sc) = <<>>
                                         THEN SUBSET (1..Len(doc)) ELSE {{}}) :
                             LET c3 == SegmenterCandidates(doc, sc, chunks, nouns)
                             IN  /\ terms' = Some(FinalTerms(c3, max_terms))
                                 /\ candidates' = c3
                                 /\ seg' = Some([chunks |-> chunks, nouns |-> nouns])
    /\ UNCHANGED <<query, max_terms, wvars, rvars, xvars>>

NextTerms == ExtractTerms
SpecTerms == InitTerms /\ [][NextTerms]_vars

(***************************************************************************)
(* Claims about the term extractor.                                        *)
(***************************************************************************)
NoDup(l) == \A i, j \in 1..Len(l) : i # j => l[i] # l[j]
FirstIdx(l, x) == CHOOSE i \in 1..Len(l) : l[i] = x /\ \A j \in 1..(i - 1) : l[j] # x
SrcRank(src) == IF src = "split" THEN 1 ELSE IF src = "chunk" THEN 2 ELSE 3
FirstWord(phrase) == Head(SplitWs(phrase))
LastWord(phrase) == SplitWs(phrase)[Len(SplitWs(phrase))]

\* candidates were produced left to right: separator parts by part index, then chunks by
\* chunk index, then tokens by token index
ProducedLeftToRight(cands) ==
    \A i, j \in 1..Len(cands) :
        i < j => \/ SrcRank(cands[i].src) < SrcRank(cands[j].src)
                 \/ (cands[i].src = cands[j].src /\ cands[i].idx < cands[j].idx)

\* C4: for every query and every max_terms >= 0 the returned list has no repeated phrase,
\* has length at most max_terms, and lists its phrases in the order in which they were
\* first produced from the query, left to right.
C4_DistinctBoundedOrdered ==
    terms # None =>
        /\ NoDup(terms[1])
        /\ Len(terms[1]) <= max_terms
        /\ ProducedLeftToRight(candidates)
        /\ \A i \in 1..Len(terms[1]) : InList(Phrases(candidates), terms[1][i])
        /\ \A i, j \in 1..Len(terms[1]) :
              i < j => FirstIdx(Phrases(candidates), terms[1][i])
                         < FirstIdx(Phrases(candidates), terms[1][j])

\* C4 witness: a call whose candidates list is longer than max_terms, so that the result
\* was truncated.
C4_Witness ==
    /\ terms # None /\ max_terms = 1 /\ Len(candidates) >= 2 /\ Len(terms[1]) = 1
    /\ terms[1][1] = candidates[1].phrase

\* the non-blank pieces between list separators
C5_SeparatedPhrases(q) == SelectSeq(ListSepSplit(Strip(q)), LAMBDA p : Strip(p) # <<>>)
\* the distinct phrases left of them after cleaning, dropping stopword-only pieces and
\* stripping leading stopwords
C5_Surviving(q) ==
    {JoinSp(DropLeadingStopwords(SplitWs(CleanPhrase(p)))) :
        p \in {C5_SeparatedPhrases(q)[i] : i \in
                 {k \in 1..Len(C5_SeparatedPhrases(q)) :
                    ~IsStopPhrase(CleanPhrase(C5_SeparatedPhrases(q)[k]))}}}
C5_Example ==
    <<"r","e","c","a","l","l"," ","o","n"," ","c","h","i","c","k","e","n"," ","a","n","d"," ","b","e","e","f">>

\* C5 (as stated): for every query containing two or more comma/"and"-separated phrases
\* (each holding a word that is not a stopword), extract_terms (with room for two terms)
\* returns at least 2 distinct terms.
C5_Original ==
    (/\ terms # None /\ max_terms >= 2
     /\ Len(SelectSeq(C5_SeparatedPhrases(query), LAMBDA p : ~IsStopPhrase(CleanPhrase(p)))) >= 2)
        => (Len(terms[1]) >= 2 /\ NoDup(terms[1]))

\* C5 (amended): for every query whose separated phrases leave at least 2 distinct phrases
\* after cleaning, dropping stopword-only phrases and stripping leading stopwords, and for
\* max_terms >= 2, extract_terms returns at least 2 distinct terms, each one such a phrase
\* with no leading stopword, in left-to-right order of the phrases;
\* "recall on chicken and beef" gives ["chicken", "beef"].
C5_TwoSurvivingPhrases ==
    (terms # None /\ max_terms >= 2 /\ Cardinality(C5_Surviving(query)) >= 2) =>
        /\ Len(terms[1]) >= 2
        /\ NoDup(terms[1])
        /\ \A i \in 1..Len(terms[1]) :
              /\ terms[1][i] \in C5_Surviving(query)
              /\ FirstWord(terms[1][i]) \notin STOPWORDS
              /\ candidates[i].phrase = terms[1][i]
              /\ candidates[i].src = "split"
        /\ \A i, j \in 1..Len(terms[1]) : i < j => candidates[i].idx < candidates[j].idx
        /\ query = C5_Example =>
              terms[1] = << <<"c","h","i","c","k","e","n">>, <<"b","e","e","f">> >>

\* C5 witness: the spec's example query was processed and gave two terms.
C5_Witness ==
    terms # None /\ query = C5_Example /\ max_terms = 2 /\ Len(terms[1]) = 2

\* C6 (as stated): neither the first nor the last token of any returned term is a stopword.
C6_Original ==
    terms # None =>
        \A i \in 1..Len(terms[1]) :
            FirstWord(terms[1][i]) \notin STOPWORDS /\ LastWord(terms[1][i]) \notin STOPWORDS

\* C6 (amended): the first token of every returned term is not a stopword; a term built by
\* the segmenter path (from a chunk or a token) contains no stopword token at all; a term
\* taken from the query text (a separator part or the whole query) has only its leading
\* stopwords stripped and may end in stopwords.
C6_LeadingStopwordsStripped ==
    terms # None =>
        /\ \A i \in 1..Len(terms[1]) : FirstWord(terms[1][i]) \notin STOPWORDS
        /\ \A k \in 1..Len(candidates) :
              candidates[k].src \in {"chunk", "token"} =>
                  \A w \in 1..Len(SplitWs(candidates[k].phrase)) :
                      SplitWs(candidates[k].phrase)[w] \notin STOPWORDS

\* C6 witness: a returned list holding a chunk-built term next to a term from the query
\* text that ends in a stopword.
C6_Witness ==
    /\ terms # None /\ Len(terms[1]) = 2
    /\ candidates[1].src = "split" /\ LastWord(terms[1][1]) \in STOPWORDS
    /\ candidates[2].src = "chunk" /\ terms[1][2] = candidates[2].phrase

\* C7: extract_terms of the empty query, and of a query that is a single word of the
\* stopword table, returns the empty list, on the first and on every repeated call.
C7_EmptyAndStopwordQueries ==
    (calls >= 1 /\ (query = <<>> \/ query \in STOPWORDS)) => terms = Some(<<>>)

\* C7 witness: a single-stopword query after a repeated call, the segmenter having tagged
\* the word as a noun.
C7_Witness ==
    /\ calls >= 2 /\ query = <<"o","n">> /\ terms = Some(<<>>)
    /\ seg # None /\ seg[1].nouns = {1}

\* C8: when the separator split yields at least 2 surviving distinct candidates, exactly
\* those, truncated to max_terms, are returned and the segmenter contributes nothing (it is
\* not consulted); chunks are used only when the split yields fewer than 2 candidates; noun
\* tokens are used only when no candidate exists after the chunk step.
C8_StrategyPrecedence ==
    terms # None =>
        LET sc == SplitCandidates(Strip(query))
        IN  /\ Len(sc) >= 2 =>
                  /\ terms[1] = Take(Phrases(sc), max_terms)
                  /\ seg = None
                  /\ \A k \in 1..Len(candidates) : candidates[k].src = "split"
            /\ (\E k \in 1..Len(candidates) : candidates[k].src = "chunk") => Len(sc) < 2
            /\ (\E k \in 1..Len(candidates) : candidates[k].src = "token") =>
                  /\ \A k \in 1..Len(candidates) : candidates[k].src = "token"
                  /\ sc = <<>>
                  /\ seg # None
                  /\ ChunkLoop(DocTokens(Lower(Strip(query))), seg[1].chunks, 1, sc) = <<>>

\* C8 witness: a query with two separated phrases was answered from the split alone.
C8_Witness ==
    /\ terms # None /\ seg = None /\ max_terms = 2
    /\ query = <<"b","e","e","f"," ","a","n","d"," ","r","i","c","e">>
    /\ terms[1] = << <<"b","e","e","f">>, <<"r","i","c","e">> >>

\* a state in which the token fallback supplied the terms
TokenFallbackUsed ==
    terms # None /\ candidates # <<>> /\ candidates[1].src = "token"

(***************************************************************************)
(* main.py / helpers_usda.py: _score_fdc_hit and _pick_best_fdc_hit.       *)
(* A candidate record is a dict; each of its four fields is absent from    *)
(* the dict, present with the value None, or present with a str.           *)
(***************************************************************************)
Missing == [k |-> "missing"]
Null    == [k |-> "null"]
Str(s)  == [k |-> "str", v |-> s]

MkFood(d, i, b, c) == [description |-> d, ingredients |-> i, brandOwner |-> b, foodCategory |-> c]

\* str(f.get(key) or ""): an absent, None or empty field reads as ""
StrOrEmpty(fv) == IF fv.k = "str" THEN fv.v ELSE <<>>

\* str(f.get(key, "")): an absent field reads as "", a None field as str(None) = "None"
StrOfGet(fv) ==
    IF fv.k = "str" THEN fv.v
    ELSE IF fv.k = "null" THEN <<"N","o","n","e">>
    ELSE <<>>

\* truth value of f.get(key)
Truthy(fv) == fv.k = "str" /\ fv.v # <<>>

\* bad_tokens = ["bar", "powder", "supplement", "shake", "cereal", "snack", "energy"]
BAD_TOKENS ==
    {<<"b","a","r">>, <<"p","o","w","d","e","r">>,
     <<"s","u","p","p","l","e","m","e","n","t">>, <<"s","h","a","k","e">>,
     <<"c","e","r","e","a","l">>, <<"s","n","a","c","k">>, <<"e","n","e","r","g","y">>}

\* mutant of ScoreMain: the branded penalty is -1 instead of -2
ScoreMain_BrandMinusOne(term_, f) ==
    LET t    == Lower(Strip(term_))
        desc == Lower(StrOrEmpty(f.description))
        ing  == Lower(StrOrEmpty(f.ingredients))
        cat  == Lower(StrOrEmpty(f.foodCategory))
    IN  (IF desc = t \/ StartsWith(desc, t) THEN 10 ELSE 0)
        + (IF Contains(desc, t) THEN 6 ELSE 0)
        + (IF t # <<>> /\ Contains(ing, t) THEN 4 ELSE 0)
        + (IF Truthy(f.brandOwner) THEN 0 - 1 ELSE 1)
        + (IF Contains(cat, t) THEN 2 ELSE 0)
        + (IF \E bt \in BAD_TOKENS : Contains(desc, bt) THEN 0 - 3 ELSE 0)

\* main.py _score_fdc_hit
ScoreMain(term_, f) ==
    LET t    == Lower(Strip(term_))
        desc == Lower(StrOrEmpty(f.description))
        ing  == Lower(StrOrEmpty(f.ingredients))
        cat  == Lower(StrOrEmpty(f.foodCategory))
        s1   == IF desc = t \/ StartsWith(desc, t) THEN 10 ELSE 0
        s2   == s1 + (IF Contains(desc, t) THEN 6 ELSE 0)
        s3   == s2 + (IF t # <<>> /\ Contains(ing, t) THEN 4 ELSE 0)
        s4   == IF Truthy(f.brandOwner) THEN s3 - 2 ELSE s3 + 1
        s5   == s4 + (IF Contains(cat, t) THEN 2 ELSE 0)
    IN  IF \E bt \in BAD_TOKENS : Contains(desc, bt) THEN s5 - 3 ELSE s5

\* helpers_usda.py _score_fdc_hit
ScoreHelpers(term_, f) ==
    LET t    == Lower(Strip(term_))
        desc == Lower(StrOrEmpty(f.description))
        ing  == Lower(StrOrEmpty(f.ingredients))
        s1   == IF desc = t \/ StartsWith(desc, t) THEN 10 ELSE 0
        s2   == s1 + (IF Contains(desc, t) THEN 6 ELSE 0)
        s3   == s2 + (IF t # <<>> /\ Contains(ing, t) THEN 4 ELSE 0)
        s4   == s3 + (IF Truthy(f.brandOwner) THEN 0 - 2 ELSE 1)
        cat  == Lower(StrOrEmpty(f.foodCategory))
        s5   == s4 + (IF Contains(cat, t) THEN 2 ELSE 0)
    IN  IF \E bt \in BAD_TOKENS : Contains(desc, bt) THEN s5 - 3 ELSE s5

\* the filter of _pick_best_fdc_hit (the same expression in both copies)
PassesFilter(term_, f) ==
    \/ Contains(Lower(StrOfGet(f.description)), Lower(term_))
    \/ Contains(Lower(StrOfGet(f.ingredients)), Lower(term_))
    \/ ~(f.description.k = "str" \/ f.ingredients.k = "str")

\* filtered = [f for f in foods if ...] as the list of kept indices
FilteredIdx(term_, fs) == SelectSeq([i \in 1..Len(fs) |-> i], LAMBDA i : PassesFilter(term_, fs[i]))

\* candidates = filtered if filtered else foods
CandidateIdx(term_, fs) ==
    IF FilteredIdx(term_, fs) # <<>> THEN FilteredIdx(term_, fs) ELSE [i \in 1..Len(fs) |-> i]

\* mutant of FirstMax: the last element of maximal key
FirstMax_Last(keys) ==
    CHOOSE k \in 1..Len(keys) :
        /\ \A j \in 1..Len(keys) : keys[j] <= keys[k]
        /\ \A j \in (k + 1)..Len(keys) : keys[j] < keys[k]

\* max(candidates, key=...): the position of the first element of maximal key
FirstMax(keys) ==
    CHOOSE k \in 1..Len(keys) :
        /\ \A j \in 1..Len(keys) : keys[j] <= keys[k]
        /\ \A j \in 1..(k - 1) : keys[j] < keys[k]

\* main.py _pick_best_fdc_hit: None, or the index in foods of the dict returned
PickBestMain(term_, fs) ==
    IF fs = <<>> THEN None
    ELSE LET cs   == CandidateIdx(term_, fs)
             keys == [j \in 1..Len(cs) |-> ScoreMain(term_, fs[cs[j]])]
         IN  Some(cs[FirstMax(keys)])

\* helpers_usda.py _pick_best_fdc_hit
PickBestHelpers(term_, fs) ==
    IF fs = <<>> THEN None
    ELSE LET cs   == CandidateIdx(term_, fs)
             keys == [j \in 1..Len(cs) |-> ScoreHelpers(term_, fs[cs[j]])]
         IN  Some(cs[FirstMax(keys)])

(***************************************************************************)
(* Inputs of the ranker.                                                   *)
(***************************************************************************)
MaxFoods == 2

T_on == <<"o","n">>
T_chicken == <<"c","h","i","c","k","e","n">>
RankTerms == {<<>>, T_on, <<" ","O","n"," ">>, <<" ">>, T_chicken}

W_onion     == <<"o","n","i","o","n">>
W_bacon     == <<"b","a","c","o","n">>
W_bacon_bar == <<"b","a","c","o","n"," ","b","a","r">>
W_rice      == <<"r","i","c","e">>
W_salt      == <<"s","a","l","t">>
W_brand     == <<"X">>

DescValues  == {Missing, Null, Str(<<>>), Str(T_on), Str(W_onion), Str(<<"B","a","c","o","n">>),
                Str(W_bacon_bar), Str(W_rice), Str(<<"S","n","a","c","k">>)}
IngValues   == {Missing, Null, Str(W_salt), Str(W_bacon)}
BrandValues == {Missing, Null, Str(<<>>), Str(W_brand)}
CatValues   == {Missing, Str(W_bacon), Str(W_rice)}

ScoreFoods == {MkFood(d, i, b, c) : d \in DescValues, i \in IngValues, b \in BrandValues, c \in CatValues}

\* the two records of the documented example
ChickenBreast ==
    MkFood(Str(<<"C","h","i","c","k","e","n"," ","b","r","e","a","s","t",","," ","r","a","w">>),
           Missing, Null, Missing)
ChickenBar ==
    MkFood(Str(<<"C","h","i","c","k","e","n"," ","p","r","o","t","e","i","n"," ","b","a","r">>),
           Missing, Str(<<"B","r","a","n","d","X">>), Missing)

\* candidate records for the selection: a None description beside a str ingredient list, a
\* branded snack, clean matches, a non-match, a record without either text field, a match
\* through the ingredients only
PickFoods ==
    {MkFood(Null, Str(W_salt), Missing, Missing),
     MkFood(Str(W_bacon_bar), Missing, Str(W_brand), Missing),
     MkFood(Str(W_onion), Missing, Null, Missing),
     MkFood(Str(<<"B","a","c","o","n">>), Missing, Missing, Str(W_bacon)),
     MkFood(Str(W_rice), Missing, Missing, Missing),
     MkFood(Missing, Missing, Missing, Missing),
     MkFood(Str(W_rice), Str(W_bacon), Str(W_brand), Missing),
     ChickenBreast, ChickenBar}

FoodLists == UNION {[1..n -> PickFoods] : n \in 0..MaxFoods}

(***************************************************************************)
(* SpecScore: _score_fdc_hit, both copies, on one term and one record.     *)
(***************************************************************************)
NoScores == [main |-> None, helpers |-> None]
NoBest   == [main |-> None, helpers |-> None]

InitScore ==
    /\ term \in RankTerms
    /\ foods \in {<<f>> : f \in ScoreFoods}
    /\ best = NoBest /\ scores = NoScores
    /\ IdleWorkout /\ IdleTerms /\ IdleExtra

CallScoreMain ==
    /\ scores.main = None
    /\ scores' = [scores EXCEPT !.main = Some(ScoreMain(term, foods[1]))]
    /\ UNCHANGED <<term, foods, best, wvars, tvars, xvars>>

CallScoreHelpers ==
    /\ scores.helpers = None
    /\ scores' = [scores EXCEPT !.helpers = Some(ScoreHelpers(term, foods[1]))]
    /\ UNCHANGED <<term, foods, best, wvars, tvars, xvars>>

NextScore == CallScoreMain \/ CallScoreHelpers
SpecScore == InitScore /\ [][NextScore]_vars

(***************************************************************************)
(* SpecRank: _pick_best_fdc_hit, both copies, on one term and a list.      *)
(***************************************************************************)
InitRank ==
    /\ term \in RankTerms
    /\ foods \in FoodLists
    /\ best = NoBest /\ scores = NoScores
    /\ IdleWorkout /\ IdleTerms /\ IdleExtra

CallPickBestMain ==
    /\ best.main = None
    /\ best' = [best EXCEPT !.main = Some(PickBestMain(term, foods))]
    /\ UNCHANGED <<term, foods, scores, wvars, tvars, xvars>>

CallPickBestHelpers ==
    /\ best.helpers = None
    /\ best' = [best EXCEPT !.helpers = Some(PickBestHelpers(term, foods))]
    /\ UNCHANGED <<term, foods, scores, wvars, tvars, xvars>>

NextRank == CallPickBestMain \/ CallPickBestHelpers
SpecRank == InitRank /\ [][NextRank]_vars

(***************************************************************************)
(* Claims about the result ranker.                                         *)
(***************************************************************************)
\* the text of a field as the claims read it: the str value lower-cased; a field that is
\* absent or None has no text
TextOf(fv) == IF fv.k = "str" THEN Lower(fv.v) ELSE <<>>

HasField(fv) == fv.k = "str"

\* the filter as C9 words it: description or ingredient text contains the term
\* case-insensitively, or the record has neither field
C9_Passes(t, f) ==
    \/ HasField(f.description) /\ Contains(TextOf(f.description), Lower(t))
    \/ HasField(f.ingredients) /\ Contains(TextOf(f.ingredients), Lower(t))
    \/ ~HasField(f.description) /\ ~HasField(f.ingredients)

C9_Returned(r) ==
    /\ (r = None) <=> (foods = <<>>)
    /\ r # None =>
         /\ r[1] \in 1..Len(foods)
         /\ (\E i \in 1..Len(foods) : C9_Passes(term, foods[i])) => C9_Passes(term, foods[r[1]])

\* C9 as stated: pick_best returns none exactly for the empty list; otherwise it returns an
\* input candidate, one that passes the filter (term in description or ingredient text, or
\* neither field present) whenever some candidate passes it.  Violated: a record whose
\* description is None and whose ingredients are a str passes the code's filter for every
\* term that is a substring of "none", because str(None) is searched.
C9_Original ==
    /\ best.main # None => C9_Returned(best.main[1])
    /\ best.helpers # None => C9_Returned(best.helpers[1])

\* the sum of contributions, with the ingredient contribution given for every term (all)
\* or only for a term that is non-empty after stripping
C10_Sum(t, f, guarded) ==
    LET desc == TextOf(f.description)
    IN  (IF desc = t \/ StartsWith(desc, t) THEN 10 ELSE 0)
        + (IF Contains(desc, t) THEN 6 ELSE 0)
        + (IF (guarded => t # <<>>) /\ Contains(TextOf(f.ingredients), t) THEN 4 ELSE 0)
        + (IF TextOf(f.brandOwner) # <<>> THEN 0 - 2 ELSE 1)
        + (IF Contains(TextOf(f.foodCategory), t) THEN 2 ELSE 0)
        + (IF \E bt \in BAD_TOKENS : Contains(desc, bt) THEN 0 - 3 ELSE 0)

C10_Scores(guarded) ==
    /\ scores.main # None => scores.main[1] = C10_Sum(Lower(Strip(term)), foods[1], guarded)
    /\ scores.helpers # None => scores.helpers[1] = C10_Sum(Lower(Strip(term)), foods[1], guarded)
    /\ (scores.main # None /\ scores.helpers # None) => scores.main = scores.helpers

\* C10 as stated: the score is the sum of the listed contributions, +4 whenever the term
\* appears in the ingredient text, and both copies agree.  Violated for a term that is
\* empty after stripping: it appears in every text, yet the code adds no +4 for it.
C10_Original == C10_Scores(FALSE)

\* C10: the score of both copies is +10 if the description equals or starts with the term,
\* +6 if the term appears in the description, +4 if the term is non-empty and appears in
\* the ingredient text, -2 with a brand and +1 without, +2 if the term appears in the
\* category, -3 once if the description holds a penalised word; the term is taken stripped
\* and lower-cased, the texts lower-cased; the two copies give the same score.
C10_ScoreContributions == C10_Scores(TRUE)

\* both copies have scored a branded record whose description starts with the term and
\* whose ingredient and category texts contain it: 10 + 6 + 4 - 2 + 2
C10_Witness ==
    /\ scores.main = Some(20) /\ scores.helpers = Some(20)
    /\ term = <<" ","O","n"," ">>
    /\ foods[1] = MkFood(Str(W_onion), Str(W_bacon), Str(W_brand), Str(W_bacon))

\* both copies have scored a record with ingredients for the empty term: no +4
C10_EmptyTermScored ==
    /\ scores.main # None /\ scores.helpers # None
    /\ Lower(Strip(term)) = <<>>
    /\ HasField(foods[1].ingredients)

\* the candidates the selection of _pick_best_fdc_hit draws from, as a set of positions
C11_Survivors == {CandidateIdx(term, foods)[k] : k \in 1..Len(CandidateIdx(term, foods))}

\* r is the first survivor of maximum score, score[i] being the score of foods[i]
C11_FirstOfMax(r, score) ==
    r # None =>
        /\ r[1] \in C11_Survivors
        /\ \A j \in C11_Survivors : score[j] <= score[r[1]]
        /\ \A j \in C11_Survivors : j < r[1] => score[j] < score[r[1]]

C11_ExampleLists == {<<ChickenBreast, ChickenBar>>, <<ChickenBar, ChickenBreast>>}

\* C11: pick_best returns a candidate of maximum score among the candidates that the
\* filter step kept (all of the input when it kept none); among several of maximum score
\* it returns the first in input order; for term "chicken" the unbranded
\* "Chicken breast, raw" is returned over the branded "Chicken protein bar" in both orders.
C11_MaxScoreFirstWins ==
    /\ best.main # None =>
          /\ C11_FirstOfMax(best.main[1], [i \in 1..Len(foods) |-> ScoreMain(term, foods[i])])
          /\ (term = T_chicken /\ foods \in C11_ExampleLists) =>
                foods[best.main[1][1]] = ChickenBreast
    /\ best.helpers # None =>
          /\ C11_FirstOfMax(best.helpers[1], [i \in 1..Len(foods) |-> ScoreHelpers(term, foods[i])])
          /\ (term = T_chicken /\ foods \in C11_ExampleLists) =>
                foods[best.helpers[1][1]] = ChickenBreast

\* two different candidates share the maximum score and the first one was returned
C11_Witness ==
    /\ best.main = Some(Some(1)) /\ best.helpers = Some(Some(1))
    /\ Len(foods) = 2 /\ foods[1] # foods[2]
    /\ C11_Survivors = {1, 2}
    /\ ScoreMain(term, foods[1]) = ScoreMain(term, foods[2])

\* the documented example with the branded bar listed first
C11_ExampleReversed ==
    /\ term = T_chicken /\ foods = <<ChickenBar, ChickenBreast>>
    /\ best.main = Some(Some(2)) /\ best.helpers = Some(Some(2))

(***************************************************************************)
(* Inputs of the macro parser.                                             *)
(***************************************************************************)
MaxLines == 2

L_protein ==
    <<"P","r","o","t","e","i","n",":"," ","2","0"," ","g">>
L_carbs ==
    <<"C","a","r","b","o","h","y","d","r","a","t","e",","," ","b","y"," ","d","i","f","f","e","r","e","n","c","e",":"," ","3","5"," ","g">>
L_sugars ==
    <<"T","o","t","a","l"," ","S","u","g","a","r","s",":"," ","5"," ","g">>
L_fat ==
    <<"T","o","t","a","l"," ","l","i","p","i","d"," ","(","f","a","t",")",":"," ","2"," ","g">>
L_energy ==
    <<"E","n","e","r","g","y",":"," ","2","5","0"," ","k","c","a","l">>
L_protein_bare ==
    <<" "," ","p","r","o","t","e","i","n"," ","7">>
L_protein_text ==
    <<"P","R","O","T","E","I","N"," ","-"," ","h","i","g","h">>
L_fat_trailing ==
    <<"F","a","t"," ","3"," ","g",":">>
L_lowfat_bar ==
    <<"l","o","w","-","f","a","t"," ","p","r","o","t","e","i","n"," ","b","a","r"," ","1","2"," ","g">>
L_sugars_decimal ==
    <<"S","u","g","a","r","s",":"," ","2",".","5","0"," ","g">>
L_blank ==
    <<" "," ">>
L_carbs_negative ==
    <<"C","a","r","b","s",":"," ","-","1"," ","g">>
L_serving ==
    <<"s","e","r","v","i","n","g"," ","1","0","0"," ","g">>

LineVocab ==
    {L_protein, L_carbs, L_sugars, L_fat,
     L_energy, L_protein_bare, L_protein_text, L_fat_trailing,
     L_lowfat_bar, L_sugars_decimal, L_blank, L_carbs_negative,
     L_serving}

C12_Example ==
    <<"P","r","o","t","e","i","n",":"," ","2","0"," ","g","\n",
    "C","a","r","b","o","h","y","d","r","a","t","e",","," ","b","y"," ","d","i","f","f","e","r","e","n","c","e",":"," ","3","5"," ","g","\n",
    "T","o","t","a","l"," ","S","u","g","a","r","s",":"," ","5"," ","g","\n",
    "T","o","t","a","l"," ","l","i","p","i","d"," ","(","f","a","t",")",":"," ","2"," ","g">>

\* further texts: \r\n line ends, a label and its value on different lines, a number with
\* two points, a delimiter followed by blanks only, a number right after a '-'
ExtraContexts ==
    {C12_Example,
     <<"P","r","o","t","e","i","n",":"," ","2","0"," ","g","\r","\n","F","a","t",":"," ","9"," ","g","\r","\n">>,
     <<"p","r","o","t","e","i","n","\n",":"," ","4">>,
     <<"S","u","g","a","r"," ","0","0","7",".","5",".","2","\n","k","c","a","l",":","\n"," ","9","0">>,
     <<"f","a","t",":"," "," ","\n">>,
     <<"C","a","l","o","r","i","e","s","-","1",".","0","5">>}

LineSeqs == UNION {[1..n -> LineVocab] : n \in 0..MaxLines}
Contexts == {JoinLines(ls) : ls \in LineSeqs} \cup ExtraContexts

(***************************************************************************)
(* SpecParse: parse_macros_from_context on a text, then estimated_kcal on  *)
(* the Macros it returned.                                                 *)
(***************************************************************************)
InitParse ==
    /\ context \in Contexts
    /\ parsed = None /\ kcal_est = None
    /\ IdleWorkout /\ IdleTerms /\ IdleRank /\ IdleOther

CallParseMacros ==
    /\ parsed = None
    /\ parsed' = Some(ParseMacros(context))
    /\ UNCHANGED <<context, kcal_est, wvars, tvars, rvars, yvars>>

CallEstimatedKcalOfParsed ==
    /\ parsed # None /\ kcal_est = None
    /\ WholeMacros(parsed[1])
    /\ kcal_est' = Some(EstimatedKcal(GramMacros(parsed[1])))
    /\ UNCHANGED <<context, parsed, wvars, tvars, rvars, yvars>>

NextParse == CallParseMacros \/ CallEstimatedKcalOfParsed
SpecParse == InitParse /\ [][NextParse]_vars

(***************************************************************************)
(* Claims about the macro parser.                                          *)
(***************************************************************************)
Fl(n) == [m |-> n, e |-> 0]

MacroFields == {"protein_g", "carbs_g", "sugars_g", "fat_g", "kcal"}

\* the synonyms of the key behind a Macros field
SynonymsOf(field) ==
    CASE field = "protein_g" -> MACRO_KEYS.protein
      [] field = "carbs_g"   -> MACRO_KEYS.carbs
      [] field = "sugars_g"  -> MACRO_KEYS.sugars
      [] field = "fat_g"     -> MACRO_KEYS.fat
      [] field = "kcal"      -> MACRO_KEYS.kcal

\* the lines of the form '<synonym label>: <number> g', with their key and number
C12_FormLines ==
    {[line |-> L_protein,         field |-> "protein_g", value |-> Fl(20)],
     [line |-> L_carbs,           field |-> "carbs_g",   value |-> Fl(35)],
     [line |-> L_sugars,          field |-> "sugars_g",  value |-> Fl(5)],
     [line |-> L_fat,             field |-> "fat_g",     value |-> Fl(2)],
     [line |-> L_sugars_decimal,  field |-> "sugars_g",  value |-> [m |-> 25, e |-> 1]],
     [line |-> L_carbs_negative,  field |-> "carbs_g",   value |-> Fl(0 - 1)]}

\* texts of such lines, one line per key at most
C12_FormTexts ==
    {ls \in UNION {[1..n -> C12_FormLines] : n \in 1..MaxLines} :
        \A i, j \in 1..Len(ls) : i # j => ls[i].field # ls[j].field}

\* no line of the text holds a synonym of a key other than its own
C12_NoForeignSynonym(ls) ==
    \A i \in 1..Len(ls) : \A f \in MacroFields \ {ls[i].field} :
        \A k \in 1..Len(SynonymsOf(f)) : ~Contains(Lower(ls[i].line), SynonymsOf(f)[k])

C12_Expected(ls) ==
    [f \in MacroFields |->
        IF \E i \in 1..Len(ls) : ls[i].field = f
        THEN Some((CHOOSE r \in {ls[i] : i \in 1..Len(ls)} : r.field = f).value)
        ELSE None]

\* C12: for a text of lines '<synonym label>: <number> g', none holding a synonym of
\* another key, parse_macros_from_context returns for each key the number on its line and
\* leaves the other keys undefined; the four-line example gives protein 20, carbs 35,
\* sugars 5, fat 2, kcal undefined and estimated_kcal 238.
C12_LabelledLinesParsed ==
    parsed # None =>
        /\ \A ls \in C12_FormTexts :
              (context = JoinLines([i \in 1..Len(ls) |-> ls[i].line]) /\ C12_NoForeignSynonym(ls))
                 => \A f \in MacroFields : parsed[1][f] = C12_Expected(ls)[f]
        /\ context = C12_Example =>
              /\ parsed[1] = MkMacros(Some(Fl(20)), Some(Fl(35)), Some(Fl(5)), Some(Fl(2)), None)
              /\ kcal_est # None => kcal_est = Some(Some(238))

\* the four-line example was parsed and its energy estimated
C12_Witness ==
    /\ context = C12_Example
    /\ parsed = Some(MkMacros(Some(Fl(20)), Some(Fl(35)), Some(Fl(5)), Some(Fl(2)), None))
    /\ kcal_est = Some(Some(238))

\* a two-line text with a negative and a decimal number was parsed
C12_SignedAndDecimalParsed ==
    /\ context = JoinLines(<<L_carbs_negative, L_sugars_decimal>>)
    /\ parsed # None
    /\ parsed[1].carbs_g = Some(Fl(0 - 1)) /\ parsed[1].sugars_g = Some([m |-> 25, e |-> 1])

\* the lines of a text, in text order
C13_Lines(text) == SplitLines(text)

\* the first line of the text holding a synonym of the field's key, or None
C13_FirstLine(text, f) ==
    LET ls   == C13_Lines(text)
        hits == {i \in 1..Len(ls) :
                    \E k \in 1..Len(SynonymsOf(f)) : Contains(Lower(ls[i]), SynonymsOf(f)[k])}
    IN  IF hits = {} THEN None ELSE Some(Strip(ls[CHOOSE i \in hits : \A j \in hits : i <= j]))

C13_Delims(line) == {d \in 1..Len(line) : line[d] \in {":", "-"}}
C13_FirstDelim(line) == CHOOSE d \in C13_Delims(line) : \A x \in C13_Delims(line) : d <= x

\* the value as stated: the first number after the first delimiter, the first number of
\* the line when it has no delimiter
C13_ValueStated(line) ==
    IF C13_Delims(line) # {}
    THEN ExtractNumber(SubSeq(line, C13_FirstDelim(line) + 1, Len(line)))
    ELSE ExtractNumber(line)

\* the value when a delimiter that ends the line does not count as one
C13_ValueAmended(line) ==
    IF C13_Delims(line) # {} /\ C13_FirstDelim(line) < Len(line)
    THEN ExtractNumber(SubSeq(line, C13_FirstDelim(line) + 1, Len(line)))
    ELSE ExtractNumber(line)

\* C13 as stated: each field is taken from the first line holding a synonym of its key
\* only; its value is the first number after the first ':' or '-' of that line, or the
\* first number of the line when the line has no ':' or '-'; it is undefined when that
\* yields no number or when no line holds a synonym.  Violated by a line whose only
\* delimiter is its last character ("Fat 3 g:"): the code then reads the whole line.
C13_Original ==
    parsed # None =>
        \A f \in MacroFields :
            parsed[1][f] = IF C13_FirstLine(context, f) = None THEN None
                           ELSE C13_ValueStated(C13_FirstLine(context, f)[1])

\* C13: each field is taken from the first line, in text order, holding a synonym of its
\* key (case-insensitive substring) and from no later line; its value is the first number
\* after the first ':' or '-' of that line when that delimiter is followed by text, and
\* the first number of the whole line otherwise; the field is undefined, not zero, when
\* that yields no number or when no line holds a synonym.
C13_FirstLineDecides ==
    parsed # None =>
        /\ \A f \in MacroFields :
              parsed[1][f] = IF C13_FirstLine(context, f) = None THEN None
                             ELSE C13_ValueAmended(C13_FirstLine(context, f)[1])
        /\ context = JoinLines(<<L_protein_text, L_protein>>) => parsed[1].protein_g = None
        /\ context = JoinLines(<<L_protein_bare, L_protein>>) => parsed[1].protein_g = Some(Fl(7))
        /\ context = JoinLines(<<L_fat_trailing, L_fat>>) => parsed[1].fat_g = Some(Fl(3))
        /\ context = JoinLines(<<L_lowfat_bar, L_protein>>) =>
              parsed[1].fat_g = Some(Fl(12)) /\ parsed[1].protein_g = Some(Fl(12))

\* a text whose first protein line has a delimiter and no number, followed by a protein
\* line with a number, was parsed: the field is undefined
C13_Witness ==
    /\ context = JoinLines(<<L_protein_text, L_protein>>)
    /\ parsed # None /\ parsed[1].protein_g = None

(***************************************************************************)
(* SpecKcal: Macros.estimated_kcal on every Macros value.                  *)
(***************************************************************************)
KcalVals == {0, 250}

InitKcal ==
    /\ macros \in {MkMacros(p, c, s, f, k) :
                     p \in Opt(ProteinVals), c \in Opt(CarbVals),
                     s \in Opt(SugarVals), f \in Opt(FatVals), k \in Opt(KcalVals)}
    /\ goal = <<>> /\ minutes = 30 /\ experience = S_beginner
    /\ focus = None /\ plan = None
    /\ IdleTerms /\ IdleRank /\ IdleExtra

CallEstimatedKcal ==
    /\ kcal_est = None
    /\ kcal_est' = Some(EstimatedKcal(macros))
    /\ UNCHANGED <<context, parsed, wvars, tvars, rvars, yvars>>

NextKcal == CallEstimatedKcal
SpecKcal == InitKcal /\ [][NextKcal]_vars

\* C14 as stated: with kcal absent and at least one of protein, carbs, sugars, fat present,
\* estimated_kcal is 4*protein + 4*carbs + 9*fat with absent fields counted as 0; it is
\* undefined only when none of the four is present.  Violated when sugars is the only
\* field present: the code returns the undefined value, the formula gives 0.
C14_Original ==
    (kcal_est # None /\ macros.kcal = None) =>
        IF macros.protein_g = None /\ macros.carbs_g = None
           /\ macros.sugars_g = None /\ macros.fat_g = None
        THEN kcal_est[1] = None
        ELSE kcal_est[1] = Some(4 * OrZero(macros.protein_g) + 4 * OrZero(macros.carbs_g)
                                + 9 * OrZero(macros.fat_g))

\* C14: with kcal absent and at least one of protein, carbs, fat present, estimated_kcal
\* is 4*protein + 4*carbs + 9*fat with absent fields counted as 0; it is undefined (not 0)
\* exactly when none of these three is present, whether or not sugars is; with kcal
\* present it is kcal.
C14_EnergyFromThreeFields ==
    kcal_est # None =>
        IF macros.kcal # None THEN kcal_est[1] = macros.kcal
        ELSE IF macros.protein_g = None /\ macros.carbs_g = None /\ macros.fat_g = None
        THEN kcal_est[1] = None
        ELSE kcal_est[1] = Some(4 * OrZero(macros.protein_g) + 4 * OrZero(macros.carbs_g)
                                + 9 * OrZero(macros.fat_g))

\* the estimate was asked of a Macros holding sugars only
C14_Witness ==
    /\ kcal_est = Some(None)
    /\ macros.sugars_g # None
    /\ macros.protein_g = None /\ macros.carbs_g = None /\ macros.fat_g = None
    /\ macros.kcal = None

(***************************************************************************)
(* Claims about the plan returned by recommend_workout_from_context.       *)
(***************************************************************************)
\* C15 as stated: the warm-up and cool-down lists of the returned plan are the template
\* pair of the experience tier, one pair for beginner/novice and another for every other
\* experience.  Violated by every plan: the tier's lists are built inside
\* _default_blocks_for_focus and dropped, the plan carries one fixed pair for every tier.
C15_Original ==
    plan # None =>
        /\ plan[1].warmup = TierWarmup(experience).warmup
        /\ plan[1].cooldown = TierWarmup(experience).cooldown

\* what the plan carries instead: the same warm-up and cool-down for every experience
C15_SameListsForEveryTier ==
    plan # None =>
        /\ plan[1].warmup = <<"Joint CARs (neck/shoulders/hips) 30-45s each", "Light cardio 3-5 min">>
        /\ plan[1].cooldown = <<"Nasal breathing 2-3 min (box or 4-7-8)", "Targeted mobility 3-5 min">>

WorkoutFocuses == {"strength", "hypertrophy", "conditioning", "mixed", "active recovery"}

C16_Table ==
    [f \in WorkoutFocuses |->
        CASE f = "strength" -> "moderate" [] f = "hypertrophy" -> "moderate"
          [] f = "conditioning" -> "high" [] f = "mixed" -> "moderate"
          [] f = "active recovery" -> "low"]

\* C16: in every returned plan the focus is one of the five focus values and the intensity
\* is the table entry of the focus; so intensity is high exactly for conditioning and low
\* exactly for active recovery.
C16_IntensityByFocus ==
    plan # None =>
        /\ plan[1].focus \in WorkoutFocuses
        /\ plan[1].intensity = C16_Table[plan[1].focus]
        /\ plan[1].intensity = "high" <=> plan[1].focus = "conditioning"
        /\ plan[1].intensity = "low" <=> plan[1].focus = "active recovery"

\* a conditioning plan of high intensity was returned
C16_Witness ==
    plan # None /\ plan[1].focus = "conditioning" /\ plan[1].intensity = "high"

\* the text holds no synonym of any macro key
C17_NoSynonym(text) ==
    \A f \in {"protein", "carbs", "sugars", "fat", "kcal"} :
        \A k \in 1..Len(MACRO_KEYS[f]) : ~Contains(Lower(text), MACRO_KEYS[f][k])

\* C17: for the empty context and for every context without a macro synonym,
\* parse_macros_from_context returns a Macros with all five fields undefined and
\* recommend_workout returns a complete plan: a focus of the enumeration, at least one
\* block, a rationale, a nutrition tip, and an undefined kcal_est.
C17_PlanWithoutMacros ==
    (plan # None /\ C17_NoSynonym(context)) =>
        /\ parsed = Some(AllNoneMacros)
        /\ plan[1].focus \in WorkoutFocuses
        /\ Len(plan[1].blocks) >= 1
        /\ \A i \in 1..Len(plan[1].rationale) : plan[1].rationale[i] # ""
        /\ Len(plan[1].rationale) = 2
        /\ plan[1].nutrition_tip.tip # ""
        /\ plan[1].kcal_est = None
        /\ kcal_est = Some(None)

\* a plan was returned for the empty context
C17_Witness ==
    /\ context = <<>> /\ plan # None /\ parsed = Some(AllNoneMacros)
    /\ plan[1].focus = "active recovery" /\ plan[1].kcal_est = None

\* a plan was returned for a non-empty context that names no macro
C17_OtherTextWitnessed ==
    /\ context # <<>> /\ C17_NoSynonym(context) /\ plan # None

(***************************************************************************)
(* Provider lookups (multi_parser.py): get_openfoodfacts_info,             *)
(* get_usda_nutrition and get_food_recalls_for_term, each wrapped by       *)
(* functools.lru_cache(maxsize=128).                                       *)
(*                                                                         *)
(* A cache is the sequence of its entries [key, value], least recently     *)
(* used first.  A key is the tuple of the call's arguments.  A Python      *)
(* value is <<>> for None and <<text>> for a str.                          *)
(***************************************************************************)
maxsize == 128

\* position of the entry of key (0 when key is not cached)
CacheIdx(c, key) ==
    IF \E i \in 1..Len(c) : c[i].key = key
    THEN CHOOSE i \in 1..Len(c) : c[i].key = key
    ELSE 0

CacheHit_NoMove(c, key) == c

\* cache hit: the entry becomes the most recently used
CacheHit(c, key) ==
    LET i == CacheIdx(c, key)
    IN Append(SubSeq(c, 1, i - 1) \o SubSeq(c, i + 1, Len(c)), c[i])

\* cache miss: the new entry is stored, the oldest entry leaves a full cache
CacheStore(c, key, value) ==
    LET e == [key |-> key, value |-> value]
    IN IF Len(c) >= maxsize THEN Append(Tail(c), e) ELSE Append(c, e)

\* mutant of CachedCall: a none result is returned but not stored
CachedCall_SkipNone(fn, c, key, computed) ==
    IF CacheIdx(c, key) # 0
    THEN [cache |-> CacheHit(c, key),
          lookup |-> [fn |-> fn, key |-> key, hit |-> TRUE, requests |-> 0,
                      result |-> c[CacheIdx(c, key)].value]]
    ELSE [cache |-> IF computed.result = None THEN c ELSE CacheStore(c, key, computed.result),
          lookup |-> [fn |-> fn, key |-> key, hit |-> FALSE,
                      requests |-> computed.requests, result |-> computed.result]]

\* a call through the wrapper.  computed = [result, requests] is what the
\* wrapped function returns and how many HTTP requests it sends: it runs on a miss only
CachedCall(fn, c, key, computed) ==
    IF CacheIdx(c, key) # 0
    THEN [cache |-> CacheHit(c, key),
          lookup |-> [fn |-> fn, key |-> key, hit |-> TRUE, requests |-> 0,
                      result |-> c[CacheIdx(c, key)].value]]
    ELSE [cache |-> CacheStore(c, key, computed.result),
          lookup |-> [fn |-> fn, key |-> key, hit |-> FALSE,
                      requests |-> computed.requests, result |-> computed.result]]

(***************************************************************************)
(* The providers.  requests.get either raises or returns a response with   *)
(* a status code and a JSON body.  A provider is "ok", "unreachable" (the  *)
(* request raises) or "error" (HTTP 500); USDA may also fail on the        *)
(* details request only.                                                   *)
(***************************************************************************)
T_water == <<"w","a","t","e","r">>
T_beef == <<"b","e","e","f">>
T_tofu == <<"t","o","f","u">>
T_kale_q == <<" ","k","a","l","e","?">>


Conditions == {"ok", "unreachable", "error"}
UsdaConditions == Conditions \cup {"details_error"}

Raised(msg) == [raises |-> TRUE, error |-> msg, status_code |-> 0, body |-> <<>>]
Response(code, body) == [raises |-> FALSE, error |-> <<>>, status_code |-> code, body |-> body]
E_timeout == <<"t","i","m","e","d"," ","o","u","t">>

\* dict.get(key, default): an absent key is <<>>
Get(field, default) == IF field = <<>> THEN default ELSE field[1]
\* (x or default) on an Optional str
OrDefault(field, default) == IF field = <<>> \/ field[1] = <<>> THEN default ELSE field[1]

UpperChar(c) ==
    CASE c = "a" -> "A" [] c = "b" -> "B" [] c = "c" -> "C" [] c = "d" -> "D"
      [] c = "e" -> "E" [] c = "f" -> "F" [] c = "g" -> "G" [] c = "h" -> "H"
      [] c = "i" -> "I" [] c = "j" -> "J" [] c = "k" -> "K" [] c = "l" -> "L"
      [] c = "m" -> "M" [] c = "n" -> "N" [] c = "o" -> "O" [] c = "p" -> "P"
      [] c = "q" -> "Q" [] c = "r" -> "R" [] c = "s" -> "S" [] c = "t" -> "T"
      [] c = "u" -> "U" [] c = "v" -> "V" [] c = "w" -> "W" [] c = "x" -> "X"
      [] c = "y" -> "Y" [] c = "z" -> "Z" [] OTHER -> c
Upper(s) == [i \in 1..Len(s) |-> UpperChar(s[i])]

\* --- Open Food Facts
OffProduct(name, brands, ingredients, allergens, grade) ==
    [product_name |-> name, brands |-> brands, ingredients_text |-> ingredients,
     allergens_from_ingredients |-> allergens, nutrition_grade_fr |-> grade]
OFF_Beef == OffProduct(<<<<"B","e","e","f"," ","J","e","r","k","y">>>>, <<<<"A","c","m","e">>>>, <<>>, <<<<"s","o","y">>>>, <<<<"d">>>>)
OFF_Tofu == OffProduct(<<<<"T","o","f","u">>>>, <<>>, <<<<"s","o","y","b","e","a","n","s",","," ","w","a","t","e","r">>>>, <<>>, <<>>)

OffRespond(search_term, cond) ==
    CASE cond = "unreachable" -> Raised(E_timeout)
      [] cond = "error" -> Response(500, <<>>)
      [] OTHER -> Response(200, [products |->
                     IF search_term = T_beef THEN <<OFF_Beef>>
                     ELSE IF search_term = T_tofu THEN <<OFF_Tofu>>
                     ELSE <<>>])

OffText(product) ==
    LET name == Get(product.product_name, <<"N","/","A">>)
        brands == Get(product.brands, <<"N","/","A">>)
        ingredients == Get(product.ingredients_text, <<"N","o"," ","i","n","g","r","e","d","i","e","n","t","s"," ","l","i","s","t","e","d",".">>)
        allergens == Get(product.allergens_from_ingredients, <<"N","o"," ","a","l","l","e","r","g","e","n","s"," ","l","i","s","t","e","d",".">>)
        nutriscore == Upper(OrDefault(product.nutrition_grade_fr, <<"N","/","A">>))
    IN <<"[","O","p","e","n"," ","F","o","o","d"," ","F","a","c","t","s","]","\n">>
       \o <<"*","*","P","r","o","d","u","c","t",":","*","*"," ">> \o name \o <<" ","(","b","y"," ">> \o brands \o <<")"," ","|"," ","*","*","N","u","t","r","i","-","S","c","o","r","e",":","*","*"," ">>
       \o nutriscore \o <<"\n">>
       \o <<"*","*","I","n","g","r","e","d","i","e","n","t","s",":","*","*"," ">> \o ingredients \o <<"\n">>
       \o <<"*","*","A","l","l","e","r","g","e","n","s",":","*","*"," ">> \o allergens

GetOpenfoodfactsInfo(search_term, cond) ==
    LET res == OffRespond(search_term, cond)
    IN IF res.raises THEN [result |-> None, requests |-> 1]
       ELSE IF res.status_code # 200 THEN [result |-> None, requests |-> 1]
       ELSE IF res.body.products = <<>> THEN [result |-> None, requests |-> 1]
       ELSE [result |-> Some(OffText(res.body.products[1])), requests |-> 1]

\* --- USDA FoodData Central
WATER_TERMS == {<<"w","a","t","e","r">>, <<"a"," ","g","l","a","s","s"," ","o","f"," ","w","a","t","e","r">>, <<"g","l","a","s","s"," ","o","f"," ","w","a","t","e","r">>}
UsdaWaterText ==
    <<"[","U","S","D","A","]","\n">>
    \o <<"*","*","P","r","o","d","u","c","t",":","*","*"," ","W","a","t","e","r"," ","(","b","y"," ","N","/","A",")","\n">>
    \o <<"*","*","K","e","y"," ","N","u","t","r","i","e","n","t","s"," ","(","p","e","r"," ","1","0","0","g",")",":","*","*","\n">>
    \o <<" "," "," ","-"," ","P","r","o","t","e","i","n",":"," ","0",".","0"," ","g","\n">>
    \o <<" "," "," ","-"," ","F","a","t",":"," ","0",".","0"," ","g","\n">>
    \o <<" "," "," ","-"," ","C","a","r","b","s",":"," ","0",".","0"," ","g","\n">>
    \o <<" "," "," ","-"," ","S","u","g","a","r","s",":"," ","0",".","0"," ","g","\n">>
    \o <<"*","*","I","n","g","r","e","d","i","e","n","t","s",":","*","*"," ","W","a","t","e","r">>

Nutrient(name, amount, unitName) ==
    [nutrient |-> [name |-> name, unitName |-> unitName], amount |-> amount]
USDA_Beef ==
    [description |-> <<<<"B","e","e","f",","," ","g","r","o","u","n","d">>>>, brandOwner |-> <<>>, ingredients |-> <<>>,
     foodNutrients |-> <<Nutrient(<<"P","r","o","t","e","i","n">>, 26, <<"G">>),
                         Nutrient(<<"T","o","t","a","l"," ","l","i","p","i","d"," ","(","f","a","t",")">>, 15, <<"G">>),
                         Nutrient(<<"C","a","r","b","o","h","y","d","r","a","t","e",","," ","b","y"," ","d","i","f","f","e","r","e","n","c","e">>, 0, <<"G">>),
                         Nutrient(<<"E","n","e","r","g","y">>, 250, <<"K","C","A","L">>),
                         Nutrient(<<"P","r","o","t","e","i","n">>, 25, <<>>)>>]

UsdaSearchRespond(search_term, cond) ==
    CASE cond = "unreachable" -> Raised(E_timeout)
      [] cond = "error" -> Response(500, <<>>)
      [] OTHER -> Response(200, [foods |->
                     IF search_term = T_beef THEN <<[fdcId |-> <<170>>]>>
                     ELSE IF search_term = T_tofu THEN <<[fdcId |-> <<>>]>>
                     ELSE <<>>])
UsdaDetailsRespond(fdcId, cond) ==
    CASE cond = "unreachable" -> Raised(E_timeout)
      [] cond \in {"error", "details_error"} -> Response(404, <<>>)
      [] OTHER -> Response(200, USDA_Beef)

\* the nutrients dict: name -> "<amount> <unit>".strip(); a later entry of a name replaces an earlier one
NutrientText(n) == Strip(DigitsOf(n.amount) \o <<" ">> \o n.nutrient.unitName)
NutrientsGet(fns, name, default) ==
    LET hits == {i \in 1..Len(fns) : fns[i].nutrient.name = name}
    IN IF hits = {} THEN default
       ELSE NutrientText(fns[CHOOSE i \in hits : \A j \in hits : j <= i])

UsdaText(data) ==
    LET name == Get(data.description, <<"N","/","A">>)
        brand == Get(data.brandOwner, <<"N","/","A">>)
        ingredients == Get(data.ingredients, <<"N","o"," ","i","n","g","r","e","d","i","e","n","t","s"," ","l","i","s","t","e","d",".">>)
        protein == NutrientsGet(data.foodNutrients, <<"P","r","o","t","e","i","n">>, <<"N","/","A">>)
        fat == NutrientsGet(data.foodNutrients, <<"T","o","t","a","l"," ","l","i","p","i","d"," ","(","f","a","t",")">>, <<"N","/","A">>)
        carbs == NutrientsGet(data.foodNutrients, <<"C","a","r","b","o","h","y","d","r","a","t","e",","," ","b","y"," ","d","i","f","f","e","r","e","n","c","e">>, <<"N","/","A">>)
        sugars == NutrientsGet(data.foodNutrients, <<"T","o","t","a","l"," ","S","u","g","a","r","s">>, <<"N","/","A">>)
    IN <<"[","U","S","D","A","]","\n">>
       \o <<"*","*","P","r","o","d","u","c","t",":","*","*"," ">> \o name \o <<" ","(","b","y"," ">> \o brand \o <<")","\n">>
       \o <<"*","*","K","e","y"," ","N","u","t","r","i","e","n","t","s"," ","(","p","e","r"," ","1","0","0","g",")",":","*","*","\n">>
       \o <<" "," "," ","-"," ","P","r","o","t","e","i","n",":"," ">> \o protein \o <<"\n">>
       \o <<" "," "," ","-"," ","F","a","t",":"," ">> \o fat \o <<"\n">>
       \o <<" "," "," ","-"," ","C","a","r","b","s",":"," ">> \o carbs \o <<"\n">>
       \o <<" "," "," ","-"," ","S","u","g","a","r","s",":"," ">> \o sugars \o <<"\n">>
       \o <<"*","*","I","n","g","r","e","d","i","e","n","t","s",":","*","*"," ">> \o ingredients

GetUsdaNutrition(search_term, api_key, cond) ==
    IF Lower(search_term) \in WATER_TERMS THEN [result |-> Some(UsdaWaterText), requests |-> 0]
    ELSE IF ~api_key THEN [result |-> None, requests |-> 0]
    ELSE LET res_search == UsdaSearchRespond(search_term, cond)
         IN IF res_search.raises THEN [result |-> None, requests |-> 1]
            ELSE IF res_search.status_code # 200 THEN [result |-> None, requests |-> 1]
            ELSE IF res_search.body.foods = <<>> THEN [result |-> None, requests |-> 1]
            ELSE IF res_search.body.foods[1].fdcId = <<>> THEN [result |-> None, requests |-> 1]
            ELSE LET res_details == UsdaDetailsRespond(res_search.body.foods[1].fdcId[1], cond)
                 IN IF res_details.raises THEN [result |-> None, requests |-> 2]
                    ELSE IF res_details.status_code # 200 THEN [result |-> None, requests |-> 2]
                    ELSE [result |-> Some(UsdaText(res_details.body)), requests |-> 2]

\* --- openFDA food enforcement (recalls)
Recall(product, reason, firm) ==
    [product_description |-> product, reason_for_recall |-> reason, recalling_firm |-> firm]
FDA_Beef == <<Recall(<<<<"G","r","o","u","n","d"," ","b","e","e","f">>>>, <<<<"E","."," ","c","o","l","i">>>>, <<>>),
              Recall(<<>>, <<>>, <<<<"A","c","m","e">>>>)>>

\* str.replace("?", "")
RemoveChar(s, c) == SelectSeq(s, LAMBDA x : x # c)

FdaRespond(term_clean, limit, cond) ==
    CASE cond = "unreachable" -> Raised(E_timeout)
      [] cond = "error" -> Response(500, <<>>)
      [] OTHER -> IF term_clean = T_beef THEN Response(200, [results |-> Take(FDA_Beef, limit)])
                  ELSE IF term_clean = T_tofu THEN Response(200, [results |-> <<>>])
                  ELSE Response(404, <<>>)

RecallLine(item) ==
    <<"-"," ","*","*","P","r","o","d","u","c","t",":","*","*"," ">> \o Get(item.product_description, <<"U","n","k","n","o","w","n">>)
    \o <<" ","|"," ","*","*","R","e","a","s","o","n",":","*","*"," ">> \o Get(item.reason_for_recall, <<"N","o"," ","r","e","a","s","o","n"," ","p","r","o","v","i","d","e","d">>)
    \o <<" ","|"," ","*","*","C","o","m","p","a","n","y",":","*","*"," ">> \o Get(item.recalling_firm, <<"U","n","k","n","o","w","n"," ","c","o","m","p","a","n","y">>)

GetFoodRecallsForTerm(term_, limit, api_key, cond) ==
    LET term_clean == RemoveChar(Strip(term_), "?")
        res == FdaRespond(term_clean, limit, cond)
        none_found == <<"N","o"," ","o","n","g","o","i","n","g"," ","r","e","c","a","l","l","s"," ","f","o","r"," ","'">> \o term_clean \o <<"'",".">>
    IN IF ~api_key THEN [result |-> Some(<<"o","p","e","n","F","D","A"," ","A","P","I"," ","k","e","y"," ","m","i","s","s","i","n","g">>), requests |-> 0]
       ELSE IF term_clean = <<>>
            THEN [result |-> Some(<<"N","o"," ","t","e","r","m"," ","p","r","o","v","i","d","e","d"," ","f","o","r"," ","r","e","c","a","l","l","s",".">>), requests |-> 0]
       ELSE IF res.raises
            THEN [result |-> Some(<<"R","e","c","a","l","l"," ","f","e","t","c","h"," ","e","r","r","o","r",":"," ">> \o res.error), requests |-> 1]
       ELSE IF res.status_code = 404 THEN [result |-> Some(none_found), requests |-> 1]
       ELSE IF res.status_code # 200
            THEN [result |-> Some(<<"R","e","c","a","l","l"," ","f","e","t","c","h"," ","f","a","i","l","e","d"," ","(">> \o DigitsOf(res.status_code) \o <<")",".">>),
                  requests |-> 1]
       ELSE IF res.body.results = <<>> THEN [result |-> Some(none_found), requests |-> 1]
       ELSE [result |-> Some(<<"O","n","g","o","i","n","g"," ","R","e","c","a","l","l","s",":","\n">>
                             \o JoinLines([i \in 1..Len(res.body.results) |->
                                              RecallLine(res.body.results[i])])),
             requests |-> 1]

(***************************************************************************)
(* get_multi_context (multi_parser.py): one entry per term, built from     *)
(* the cached lookups.                                                     *)
(***************************************************************************)
LookupNames == {"get_usda_nutrition", "get_openfoodfacts_info", "get_food_recalls_for_term"}
EmptyCaches == [get_usda_nutrition |-> <<>>, get_openfoodfacts_info |-> <<>>,
                get_food_recalls_for_term |-> <<>>]

\* `if value:` on an Optional str
TruthyStr(value) == value # <<>> /\ value[1] # <<>>

\* d[k] = v on a dict
DictSet(d, k, v) == [x \in (DOMAIN d) \cup {k} |-> IF x = k THEN v ELSE d[x]]

\* mutant of AskOff: the secondary provider is asked for every term
AskOff_Always(nutrition, usda) == nutrition

\* the else branch of `if usda:`: the secondary provider is asked
AskOff(nutrition, usda) == nutrition /\ ~TruthyStr(usda)

\* one iteration of the loop over items
MultiStep(term_, c, usda_key, fda_key, nutrition, recall, cond) ==
    LET u == CachedCall("get_usda_nutrition", c.get_usda_nutrition, <<term_>>,
                        GetUsdaNutrition(term_, usda_key, cond.usda))
        ask_off == AskOff(nutrition, u.lookup.result)
        o == CachedCall("get_openfoodfacts_info", c.get_openfoodfacts_info, <<term_>>,
                        GetOpenfoodfactsInfo(term_, cond.off))
        r == CachedCall("get_food_recalls_for_term", c.get_food_recalls_for_term, <<term_>>,
                        GetFoodRecallsForTerm(term_, 3, fda_key, cond.fda))
        info == IF ~nutrition THEN <<>>
                ELSE IF ~ask_off THEN <<u.lookup.result[1]>>
                ELSE <<OrDefault(o.lookup.result, <<"N","o"," ","p","r","o","d","u","c","t"," ","i","n","f","o"," ","f","o","u","n","d">>)>>
        lines == <<<<"#","#","#"," ">> \o term_>> \o info
                 \o (IF recall THEN <<r.lookup.result[1]>> ELSE <<>>)
    IN [cache |-> [get_usda_nutrition |-> IF nutrition THEN u.cache ELSE c.get_usda_nutrition,
                   get_openfoodfacts_info |-> IF ask_off THEN o.cache ELSE c.get_openfoodfacts_info,
                   get_food_recalls_for_term |-> IF recall THEN r.cache
                                                 ELSE c.get_food_recalls_for_term],
        lookups |-> (IF nutrition THEN <<u.lookup>> ELSE <<>>)
                    \o (IF ask_off THEN <<o.lookup>> ELSE <<>>)
                    \o (IF recall THEN <<r.lookup>> ELSE <<>>),
        text |-> JoinLines(lines)]

RECURSIVE MultiLoop(_, _, _, _, _, _, _, _, _, _)
MultiLoop(its, i, c, outd, log, usda_key, fda_key, nutrition, recall, cond) ==
    IF i > Len(its) THEN [cache |-> c, out |-> outd, lookups |-> log]
    ELSE LET s == MultiStep(its[i], c, usda_key, fda_key, nutrition, recall, cond)
         IN MultiLoop(its, i + 1, s.cache, DictSet(outd, its[i], s.text), log \o s.lookups,
                      usda_key, fda_key, nutrition, recall, cond)

GetMultiContext(its, c, usda_key, fda_key, nutrition, recall, cond) ==
    MultiLoop(its, 1, c, <<>>, <<>>, usda_key, fda_key, nutrition, recall, cond)

(***************************************************************************)
(* SpecCache: a client calls one of the three lookups again and again,     *)
(* with a term it has asked for before or with a term never seen.          *)
(***************************************************************************)
MaxFresh == 130

FreshTerm(n) == <<"i","t","e","m">> \o DigitsOf(n)
ClientTerms == {T_beef} \cup (IF fresh < MaxFresh THEN {FreshTerm(fresh + 1)} ELSE {})
\* the providers know no never-seen term; their failures are tried on the known term
ConditionsFor(term_, conds) == IF term_ = T_beef THEN conds ELSE {"ok"}
FreshAfter(term_) == IF term_ = T_beef THEN fresh ELSE fresh + 1

\* the lookup as the client driver records it: with the condition the provider was in
\* while the call ran
DuringCondition(lookup, cond) ==
    [fn |-> lookup.fn, key |-> lookup.key, hit |-> lookup.hit, requests |-> lookup.requests,
     result |-> lookup.result, cond |-> cond]

InitCache ==
    /\ USDA_API_KEY = TRUE /\ OPENFDA_API_KEY = TRUE
    /\ cache = EmptyCaches /\ lookups = <<>>
    /\ driver \in LookupNames
    /\ fresh = 0
    /\ items = <<>> /\ do_recall = FALSE /\ do_nutrition = FALSE
    /\ out = <<>> /\ multi_calls = 0
    /\ IdleWorkout /\ IdleTerms /\ IdleRank /\ IdleParse /\ IdleFdc

CallGetUsdaNutrition ==
    /\ driver = "get_usda_nutrition"
    /\ \E t \in ClientTerms : \E cond \in ConditionsFor(t, UsdaConditions) :
          LET r == CachedCall("get_usda_nutrition", cache.get_usda_nutrition, <<t>>,
                              GetUsdaNutrition(t, USDA_API_KEY, cond))
          IN /\ cache' = [cache EXCEPT !.get_usda_nutrition = r.cache]
             /\ lookups' = <<DuringCondition(r.lookup, cond)>>
             /\ fresh' = FreshAfter(t)
    /\ UNCHANGED <<USDA_API_KEY, OPENFDA_API_KEY, driver, items, do_recall, do_nutrition,
                   out, multi_calls, wvars, tvars, rvars, pvars, fvars>>

CallGetOpenfoodfactsInfo ==
    /\ driver = "get_openfoodfacts_info"
    /\ \E t \in ClientTerms : \E cond \in ConditionsFor(t, Conditions) :
          LET r == CachedCall("get_openfoodfacts_info", cache.get_openfoodfacts_info, <<t>>,
                              GetOpenfoodfactsInfo(t, cond))
          IN /\ cache' = [cache EXCEPT !.get_openfoodfacts_info = r.cache]
             /\ lookups' = <<DuringCondition(r.lookup, cond)>>
             /\ fresh' = FreshAfter(t)
    /\ UNCHANGED <<USDA_API_KEY, OPENFDA_API_KEY, driver, items, do_recall, do_nutrition,
                   out, multi_calls, wvars, tvars, rvars, pvars, fvars>>

CallGetFoodRecallsForTerm ==
    /\ driver = "get_food_recalls_for_term"
    /\ \E t \in ClientTerms : \E cond \in ConditionsFor(t, Conditions) :
          LET r == CachedCall("get_food_recalls_for_term", cache.get_food_recalls_for_term, <<t>>,
                              GetFoodRecallsForTerm(t, 3, OPENFDA_API_KEY, cond))
          IN /\ cache' = [cache EXCEPT !.get_food_recalls_for_term = r.cache]
             /\ lookups' = <<DuringCondition(r.lookup, cond)>>
             /\ fresh' = FreshAfter(t)
    /\ UNCHANGED <<USDA_API_KEY, OPENFDA_API_KEY, driver, items, do_recall, do_nutrition,
                   out, multi_calls, wvars, tvars, rvars, pvars, fvars>>

NextCache == CallGetUsdaNutrition \/ CallGetOpenfoodfactsInfo \/ CallGetFoodRecallsForTerm
SpecCache == InitCache /\ [][NextCache]_vars

(***************************************************************************)
(* SpecMulti: get_multi_context on a list of terms, with the providers in  *)
(* any condition and the API keys set or not.                              *)
(***************************************************************************)
MaxItems == 2
MaxRequests == 1

MultiTerms == {T_water, T_beef, T_tofu, T_kale_q}
ItemLists == UNION {[1..n -> MultiTerms] : n \in 0..MaxItems}
ProviderStates == [usda : {"ok", "unreachable"}, off : {"ok", "unreachable"},
                   fda : {"ok", "unreachable"}]

InitMulti ==
    /\ USDA_API_KEY \in BOOLEAN /\ OPENFDA_API_KEY \in BOOLEAN
    /\ cache = EmptyCaches /\ lookups = <<>>
    /\ driver = "get_multi_context"
    /\ fresh = 0
    /\ items \in ItemLists /\ do_recall \in BOOLEAN /\ do_nutrition \in BOOLEAN
    /\ out = <<>> /\ multi_calls = 0
    /\ IdleWorkout /\ IdleTerms /\ IdleRank /\ IdleParse /\ IdleFdc

CallGetMultiContext ==
    /\ multi_calls < MaxRequests
    /\ \E cond \in ProviderStates :
          LET r == GetMultiContext(items, cache, USDA_API_KEY, OPENFDA_API_KEY,
                                   do_nutrition, do_recall, cond)
          IN /\ cache' = r.cache
             /\ lookups' = r.lookups
             /\ out' = Some(r.out)
    /\ multi_calls' = multi_calls + 1
    /\ UNCHANGED <<USDA_API_KEY, OPENFDA_API_KEY, driver, fresh, items, do_recall,
                   do_nutrition, wvars, tvars, rvars, pvars, fvars>>

NextMulti == CallGetMultiContext
SpecMulti == InitMulti /\ [][NextMulti]_vars

(***************************************************************************)
(* Claims about the lookup caches.                                         *)
(***************************************************************************)
C18_Keys(c) == {c[i].key : i \in 1..Len(c)}
C18_Stored(c, k) == (CHOOSE e \in {c[i] : i \in 1..Len(c)} : e.key = k).value
C18_Others(c, k) == SelectSeq(c, LAMBDA e : e.key # k)

\* C18: each lookup is a read-through cache keyed by the call's arguments.  In every
\* call: the cache of the called function holds at most 128 entries afterwards and the
\* other caches are untouched; when the key was cached, the call returns the stored
\* value, sends no request to the provider, and the entry becomes the most recently
\* used one with every other entry keeping its place; when the key is new, the
\* returned value is stored as the most recently used entry and, the cache being
\* full, exactly the least recently used entry is dropped.
C18_ReadThroughLru ==
    [][LET c  == cache[driver]
           c2 == cache'[driver]
           rec == lookups'[1]
           k  == rec.key
       IN /\ Len(lookups') = 1 /\ rec.fn = driver
          /\ Len(c2) <= maxsize
          /\ \A f \in LookupNames \ {driver} : cache'[f] = cache[f]
          /\ k \in C18_Keys(c) =>
                /\ rec.hit /\ rec.requests = 0
                /\ rec.result = C18_Stored(c, k)
                /\ c2 = Append(C18_Others(c, k), [key |-> k, value |-> C18_Stored(c, k)])
          /\ k \notin C18_Keys(c) =>
                /\ ~rec.hit
                /\ c2 = Append(IF Len(c) = maxsize THEN Tail(c) ELSE c,
                               [key |-> k, value |-> rec.result])]_vars

\* a call found its key in a full cache that has already dropped entries, and the
\* key was not the most recently used one
C18_Witness ==
    /\ driver \in LookupNames /\ lookups # <<>>
    /\ Len(cache[driver]) = maxsize /\ fresh > maxsize
    /\ lookups[1].hit /\ lookups[1].key = <<T_beef>>
    /\ cache[driver][maxsize - 1].key = <<FreshTerm(fresh)>>

\* a call with a new key found the cache full, and the known term, once the least
\* recently used entry, is no longer cached
C18_EvictionWitnessed ==
    /\ driver \in LookupNames /\ lookups # <<>>
    /\ Len(cache[driver]) = maxsize /\ fresh > maxsize
    /\ ~lookups[1].hit /\ lookups[1].key = <<FreshTerm(fresh)>>
    /\ <<T_beef>> \notin C18_Keys(cache[driver])

(***************************************************************************)
(* Claims about get_multi_context.                                         *)
(***************************************************************************)
C19_Placeholder == <<"N","o"," ","p","r","o","d","u","c","t"," ","i","n","f","o"," ","f","o","u","n","d">>
C19_IsUsda(l) == l.fn = "get_usda_nutrition"
C19_IsOff(l) == l.fn = "get_openfoodfacts_info"
C19_Nutrition == SelectSeq(lookups, LAMBDA l : C19_IsUsda(l) \/ C19_IsOff(l))
C19_UsdaKeys ==
    LET us == SelectSeq(lookups, C19_IsUsda) IN [i \in 1..Len(us) |-> us[i].key]
\* both providers returned none for term t
C19_BothNone(t) ==
    \E p \in 1..(Len(C19_Nutrition) - 1) :
        /\ C19_IsUsda(C19_Nutrition[p]) /\ C19_Nutrition[p].key = <<t>>
        /\ C19_Nutrition[p].result = None
        /\ C19_IsOff(C19_Nutrition[p + 1]) /\ C19_Nutrition[p + 1].result = None

\* C19: after get_multi_context with nutrition enabled: USDA was asked once per
\* term, in the order of the items; OpenFoodFacts was asked for a term only right
\* after USDA returned none for that term, and always then; the entry of a term
\* contains 'No product info found' exactly when both returned none for it; the call
\* returned a dict (no provider condition makes it raise) whose keys are the input terms.
C19_PrimaryThenSecondary ==
    (out # None /\ do_nutrition) =>
        LET ns == C19_Nutrition
        IN /\ C19_UsdaKeys = [i \in 1..Len(items) |-> <<items[i]>>]
           /\ \A p \in 1..Len(ns) :
                 /\ C19_IsOff(ns[p]) =>
                       /\ p > 1 /\ C19_IsUsda(ns[p - 1])
                       /\ ns[p - 1].key = ns[p].key /\ ~TruthyStr(ns[p - 1].result)
                 /\ (C19_IsUsda(ns[p]) /\ ~TruthyStr(ns[p].result)) =>
                       /\ p < Len(ns) /\ C19_IsOff(ns[p + 1]) /\ ns[p + 1].key = ns[p].key
           /\ DOMAIN out[1] = {items[i] : i \in 1..Len(items)}
           /\ \A t \in DOMAIN out[1] :
                 Contains(out[1][t], C19_Placeholder) <=> C19_BothNone(t)

\* a call in which OpenFoodFacts answered for one term after USDA had nothing, and
\* neither provider had anything for the other term
C19_Witness ==
    /\ out # None /\ do_nutrition
    /\ items = <<T_tofu, T_kale_q>>
    /\ \E p \in 1..Len(lookups) :
          /\ C19_IsOff(lookups[p]) /\ lookups[p].key = <<T_tofu>>
          /\ TruthyStr(lookups[p].result)
    /\ ~Contains(out[1][T_tofu], C19_Placeholder)
    /\ Contains(out[1][T_kale_q], C19_Placeholder)

\* a call in which USDA answered and OpenFoodFacts was not asked, although it is unreachable or not
C19_UsdaAnswerWitnessed ==
    /\ out # None /\ do_nutrition
    /\ items = <<T_beef, T_beef>>
    /\ Len(C19_Nutrition) = 2
    /\ ~lookups[1].hit /\ lookups[1].requests = 2
    /\ \E p \in 1..Len(lookups) : C19_IsUsda(lookups[p]) /\ lookups[p].hit

(***************************************************************************)
(* FoodData Central search (main.py and helpers_usda.py):                  *)
(* _fdc_search_json, _fdc_search_multi, extract_food_term, fdc_context.    *)
(*                                                                         *)
(* A call returns [raised, message, value]: raised is "" for a normal      *)
(* return and the exception class otherwise.  JSON values are Missing,     *)
(* Null, Str, Num and List; a JSON object is a record without the tag k.   *)
(***************************************************************************)
Num(n) == [k |-> "num", v |-> n]
List(l) == [k |-> "list", v |-> l]
IsDict(x) == "k" \notin DOMAIN x

Return(value) == [raised |-> "", message |-> <<>>, value |-> value]
Raise(exc, msg) == [raised |-> exc, message |-> msg, value |-> <<>>]

\* mutant of FDC_DATATYPES_PRIORITIZED: branded items first
FDC_DATATYPES_BrandedFirst == <<"Branded", "Survey (FNDDS)", "Foundation", "SR Legacy">>

FDC_DATATYPES_PRIORITIZED == <<"Survey (FNDDS)", "Foundation", "SR Legacy", "Branded">>

MkHit(d, b, id, ns) ==
    [description |-> d, ingredients |-> Missing, brandOwner |-> b, foodCategory |-> Missing,
     fdcId |-> id, foodNutrients |-> ns]
FdcNutrient(name, value, unit) == [nutrientName |-> name, value |-> value, unitName |-> unit]

HitBreast ==
    MkHit(Str(<<"C","h","i","c","k","e","n"," ","b","r","e","a","s","t",","," ","r","a","w">>), Null, Num(171),
          List(<<FdcNutrient(Str(<<"P","r","o","t","e","i","n">>), Num(23), Str(<<"G">>)),
                 Str(<<"n","/","a">>),
                 FdcNutrient(Str(<<"W","a","t","e","r">>), Num(74), Str(<<"G">>)),
                 FdcNutrient(Str(<<"E","n","e","r","g","y">>), Num(120), Missing),
                 FdcNutrient(Str(<<"S","o","d","i","u","m",","," ","N","a">>), Null, Null)>>))
HitThigh == MkHit(Str(<<"C","h","i","c","k","e","n"," ","t","h","i","g","h">>), Missing, Missing, Null)
HitBar == MkHit(Str(<<"C","h","i","c","k","e","n"," ","p","r","o","t","e","i","n"," ","b","a","r">>), Str(<<"B","r","a","n","d","X">>), Num(9), Str(<<"n","o","n","e">>))

\* what the FDC search holds for a query and a data type ("": no dataType parameter,
\* the search runs over every type)
FdcCatalogue(q, data_type) ==
    IF q # T_chicken THEN <<>>
    ELSE CASE data_type = "Survey (FNDDS)" -> <<HitBreast>>
           [] data_type = "Foundation" -> <<Str(<<"n","/","a">>), HitThigh>>
           [] data_type = "Branded" -> <<HitBar>>
           [] data_type = "" -> <<HitBreast, Str(<<"n","/","a">>), HitThigh, HitBar>>
           [] OTHER -> <<>>

FdcKinds == {"ok", "unreachable", "http_error", "non_json", "not_object", "foods_null",
             "foods_not_list"}
E_http == <<"5","0","0"," ","S","e","r","v","e","r"," ","E","r","r","o","r">>
NonJson == [k |-> "nonjson"]
FdcBody(foods_) == [foods |-> foods_]

\* the HTTP exchange of one search
FdcRespond(q, data_type, page_size, kind) ==
    CASE kind = "unreachable" -> Raised(E_timeout)
      [] kind = "http_error" -> Response(500, NonJson)
      [] kind = "non_json" -> Response(200, NonJson)
      [] kind = "not_object" -> Response(200, List(<<>>))
      [] kind = "foods_null" -> Response(200, FdcBody(Null))
      [] kind = "foods_not_list" -> Response(200, FdcBody(Str(<<"n","o","n","e">>)))
      [] OTHER -> Response(200, FdcBody(List(Take(FdcCatalogue(q, data_type), page_size))))

\* r.raise_for_status() raises for the 4xx and 5xx codes
IsHttpError(code) == code >= 400 /\ code < 600

\* main.py _fdc_search_json
FdcSearchJsonMain(q, data_type, page_size, api_key, kind) ==
    IF ~api_key THEN Raise("FDCError", <<"U","S","D","A","_","A","P","I","_","K","E","Y"," ","n","o","t"," ","s","e","t">>)
    ELSE LET r == FdcRespond(q, data_type, page_size, kind)
         IN IF r.raises THEN Raise("ConnectionError", r.error)
            ELSE IF IsHttpError(r.status_code) THEN Raise("HTTPError", E_http)
            ELSE IF r.body = NonJson THEN Raise("JSONDecodeError", <<"E","x","p","e","c","t","i","n","g"," ","v","a","l","u","e">>)
            ELSE IF ~IsDict(r.body)
                 THEN Raise("FDCError", <<"U","n","e","x","p","e","c","t","e","d"," ","F","D","C"," ","r","e","s","p","o","n","s","e"," ","t","y","p","e",":"," ","l","i","s","t">>)
            ELSE Return(r.body)

\* helpers_usda.py _fdc_search_json
FdcSearchJsonHelpers(q, data_type, page_size, api_key, kind) ==
    IF ~api_key THEN Raise("FDCError", <<"U","S","D","A","_","A","P","I","_","K","E","Y"," ","n","o","t"," ","s","e","t">>)
    ELSE LET r == FdcRespond(q, data_type, page_size, kind)
         IN IF r.raises THEN Raise("ConnectionError", r.error)
            ELSE IF IsHttpError(r.status_code)
                 THEN Raise("FDCError", <<"F","D","C"," ","H","T","T","P"," ","e","r","r","o","r",":"," ">> \o E_http)
            ELSE IF r.body = NonJson THEN Raise("FDCError", <<"F","D","C"," ","r","e","t","u","r","n","e","d"," ","n","o","n","-","J","S","O","N">>)
            ELSE IF ~IsDict(r.body)
                 THEN Raise("FDCError", <<"U","n","e","x","p","e","c","t","e","d"," ","F","D","C"," ","r","e","s","p","o","n","s","e"," ","t","y","p","e",":"," ","l","i","s","t">>)
            ELSE Return(r.body)

\* foods = data.get("foods") or []; the dict items of foods when it is a list
DictItems(foods_) ==
    IF foods_.k = "list" THEN SelectSeq(foods_.v, IsDict) ELSE <<>>

\* the loop of _fdc_search_multi over the data types dts[i..], for either copy
RECURSIVE SearchLoop(_, _, _, _, _, _, _, _)
SearchLoop(copy, dts, i, term_, per_type, api_key, provider, hits_) ==
    IF i > Len(dts) THEN hits_
    ELSE LET data == IF copy = "main"
                     THEN FdcSearchJsonMain(term_, dts[i], per_type, api_key, provider[dts[i]])
                     ELSE FdcSearchJsonHelpers(term_, dts[i], per_type, api_key, provider[dts[i]])
         IN IF data.raised # ""
            THEN SearchLoop(copy, dts, i + 1, term_, per_type, api_key, provider, hits_)
            ELSE SearchLoop(copy, dts, i + 1, term_, per_type, api_key, provider,
                            hits_ \o DictItems(data.value.foods))

\* main.py _fdc_search_multi
FdcSearchMultiMain(term_, per_type, api_key, provider) ==
    Return(SearchLoop("main", FDC_DATATYPES_PRIORITIZED, 1, term_, per_type, api_key,
                      provider, <<>>))

\* helpers_usda.py _fdc_search_multi
FdcSearchMultiHelpers(term_, per_type, api_key, provider) ==
    Return(SearchLoop("helpers", FDC_DATATYPES_PRIORITIZED, 1, term_, per_type, api_key,
                      provider, <<>>))

\* --- extract_food_term: re.search(r"(?:for|of)\s+([A-Za-z0-9 \-\_]+)", q, flags=re.I)
IsAlnum(c) == IsDigit(c) \/ LowerChar(c) # c \/ UpperChar(c) # c
IsTermChar(c) == IsAlnum(c) \/ c \in {" ", "-", "_"}

\* length of the keyword matched at position i (0 when neither matches)
KeywordLenAt(q, i) ==
    IF i + 2 <= Len(q) /\ Lower(SubSeq(q, i, i + 2)) = <<"f","o","r">> THEN 3
    ELSE IF i + 1 <= Len(q) /\ Lower(SubSeq(q, i, i + 1)) = <<"o","f">> THEN 2
    ELSE 0

\* where group 1 starts for a keyword ending before position a: \s+ takes the longest
\* run of blanks that leaves a character of the class for the group (0 when none does)
GroupStart(q, a) ==
    LET e == SkipSpace(q, a)
        gs == {g \in (a + 1)..e : g <= Len(q) /\ IsTermChar(q[g])}
    IN IF gs = {} THEN 0 ELSE CHOOSE g \in gs : \A h \in gs : h <= g

RECURSIVE TermCharsEnd(_, _)
TermCharsEnd(q, i) == IF i < Len(q) /\ IsTermChar(q[i + 1]) THEN TermCharsEnd(q, i + 1) ELSE i

MatchesAt(q, i) == KeywordLenAt(q, i) > 0 /\ GroupStart(q, i + KeywordLenAt(q, i)) > 0

ExtractFoodTerm(q) ==
    IF \E i \in 1..Len(q) : MatchesAt(q, i)
    THEN LET i == CHOOSE j \in 1..Len(q) : MatchesAt(q, j) /\ \A h \in 1..(j - 1) : ~MatchesAt(q, h)
             g == GroupStart(q, i + KeywordLenAt(q, i))
         IN Some(Strip(SubSeq(q, g, TermCharsEnd(q, g))))
    ELSE None

\* --- fdc_context
WANTED == {<<"E","n","e","r","g","y">>, <<"P","r","o","t","e","i","n">>, <<"T","o","t","a","l"," ","l","i","p","i","d"," ","(","f","a","t",")">>, <<"C","a","r","b","o","h","y","d","r","a","t","e",","," ","b","y"," ","d","i","f","f","e","r","e","n","c","e">>,
           <<"S","o","d","i","u","m",","," ","N","a">>}

\* str(x) of a value read with dict.get(key)
PyStr(x) ==
    CASE x.k = "str" -> x.v
      [] x.k = "num" -> DigitsOf(x.v)
      [] OTHER -> <<"N","o","n","e">>

\* ", ".join(parts)
RECURSIVE JoinComma(_)
JoinComma(parts) ==
    IF parts = <<>> THEN <<>>
    ELSE IF Len(parts) = 1 THEN parts[1]
    ELSE parts[1] \o <<","," ">> \o JoinComma(Tail(parts))

PickedNutrients(nutrients) ==
    LET ns == IF nutrients.k = "list" THEN nutrients.v ELSE <<>>
        ok(n) == IsDict(n) /\ n.nutrientName.k = "str" /\ n.nutrientName.v \in WANTED
        kept == SelectSeq(ns, ok)
    IN [i \in 1..Len(kept) |->
           PyStr(kept[i].nutrientName) \o <<":"," ">> \o PyStr(kept[i].value)
           \o (IF kept[i].unitName.k = "missing" THEN <<>> ELSE PyStr(kept[i].unitName))]

MatchText(term_, best_) ==
    LET picked == PickedNutrients(best_.foodNutrients)
        core == IF picked # <<>> THEN JoinComma(Take(picked, 4))
                ELSE <<"K","e","y"," ","n","u","t","r","i","e","n","t","s"," ","n","o","t"," ","a","v","a","i","l","a","b","l","e",".">>
        brand_part == IF Truthy(best_.brandOwner) THEN <<" ","(">> \o PyStr(best_.brandOwner) \o <<")">>
                      ELSE <<>>
    IN <<"F","D","C"," ","M","a","t","c","h"," ","f","o","r"," ","'">> \o term_ \o <<"'",":"," ">> \o PyStr(best_.description) \o brand_part
       \o <<","," ","f","d","c","I","d","=">> \o PyStr(best_.fdcId) \o <<"."," ">> \o core

FdcContext(query_, api_key, provider) ==
    LET term_ == OrDefault(ExtractFoodTerm(query_), query_)
        found == FdcSearchMultiMain(term_, 8, api_key, provider)
        best_ == IF found.raised = "" THEN PickBestMain(term_, found.value) ELSE None
    IN IF found.raised # "" THEN <<"E","r","r","o","r"," ","f","e","t","c","h","i","n","g"," ","F","D","C"," ","c","o","n","t","e","x","t",":"," ">> \o found.message
       ELSE IF best_ = None THEN <<"N","o"," ","F","D","C"," ","r","e","s","u","l","t","s"," ","f","o","r"," ","'">> \o term_ \o <<"'",".">>
       ELSE MatchText(term_, found.value[best_[1]])

(***************************************************************************)
(* SpecFdc: one request; the FDC search is in some condition for each of   *)
(* the four data types.                                                    *)
(***************************************************************************)
FdcQueries == {T_chicken, <<"n","u","t","r","i","t","i","o","n"," ","f","o","r"," ","c","h","i","c","k","e","n">>, <<"c","a","l","o","r","i","e","s"," ","o","f"," "," ","?">>}
FdcProviders == [{FDC_DATATYPES_PRIORITIZED[i] : i \in 1..Len(FDC_DATATYPES_PRIORITIZED)} -> FdcKinds]

InitFdc ==
    /\ USDA_API_KEY \in BOOLEAN /\ OPENFDA_API_KEY = FALSE
    /\ cache = EmptyCaches /\ lookups = <<>> /\ driver = "fdc_context" /\ fresh = 0
    /\ items = <<>> /\ do_recall = FALSE /\ do_nutrition = FALSE
    /\ out = <<>> /\ multi_calls = 0
    /\ fdc_query \in FdcQueries
    /\ fdc_provider \in FdcProviders
    /\ all_hits = [main |-> <<>>, helpers |-> <<>>] /\ fdc_text = <<>>
    /\ fdc_data_type = <<>> /\ fdc_json = [main |-> <<>>, helpers |-> <<>>]
    /\ IdleWorkout /\ IdleTerms /\ IdleRank /\ IdleParse

CallFdcSearchMultiMain ==
    /\ all_hits.main = None
    /\ all_hits' = [all_hits EXCEPT !.main = Some(FdcSearchMultiMain(fdc_query, 5, USDA_API_KEY,
                                                                      fdc_provider))]
    /\ UNCHANGED <<fdc_query, fdc_provider, fdc_text, fdc_data_type, fdc_json,
                   cvars, wvars, tvars, rvars, pvars>>

CallFdcSearchMultiHelpers ==
    /\ all_hits.helpers = None
    /\ all_hits' = [all_hits EXCEPT !.helpers = Some(FdcSearchMultiHelpers(fdc_query, 5,
                                                        USDA_API_KEY, fdc_provider))]
    /\ UNCHANGED <<fdc_query, fdc_provider, fdc_text, fdc_data_type, fdc_json,
                   cvars, wvars, tvars, rvars, pvars>>

CallFdcContext ==
    /\ fdc_text = None
    /\ fdc_text' = Some(FdcContext(fdc_query, USDA_API_KEY, fdc_provider))
    /\ UNCHANGED <<fdc_query, fdc_provider, all_hits, fdc_data_type, fdc_json,
                   cvars, wvars, tvars, rvars, pvars>>

NextFdc == CallFdcSearchMultiMain \/ CallFdcSearchMultiHelpers \/ CallFdcContext
SpecFdc == InitFdc /\ [][NextFdc]_vars

(***************************************************************************)
(* Claims about the multi-type search.                                     *)
(***************************************************************************)
\* the search for data type dt succeeded: a key is set and the exchange gave a JSON object
C20_Succeeded(dt) ==
    USDA_API_KEY /\ fdc_provider[dt] \in {"ok", "foods_null", "foods_not_list"}
\* the dict-typed hits a successful search for dt returns for term t
C20_HitsOf(t, dt) ==
    IF C20_Succeeded(dt) /\ fdc_provider[dt] = "ok"
    THEN SelectSeq(FdcCatalogue(t, dt), LAMBDA f : "description" \in DOMAIN f)
    ELSE <<>>
C20_Expected(t) ==
    C20_HitsOf(t, "Survey (FNDDS)") \o C20_HitsOf(t, "Foundation")
    \o C20_HitsOf(t, "SR Legacy") \o C20_HitsOf(t, "Branded")
C20_AllFail == \A dt \in DOMAIN fdc_provider : ~C20_Succeeded(dt)

\* C20: _fdc_search_multi (both copies) returns and never raises; what it returns is
\* the concatenation, in the order Survey (FNDDS), Foundation, SR Legacy, Branded, of
\* the dict-typed hits of the data types whose search succeeded, a failed search
\* contributing nothing; it is the empty list when all four fail, and fdc_context then
\* returns the "No FDC results" text, never the "Error fetching FDC context" text.
C20_FailedTypesSkipped ==
    /\ \A copy \in {"main", "helpers"} :
          all_hits[copy] # None =>
             /\ all_hits[copy][1].raised = ""
             /\ all_hits[copy][1].value = C20_Expected(fdc_query)
             /\ C20_AllFail => all_hits[copy][1].value = <<>>
    /\ fdc_text # None =>
          /\ ~StartsWith(fdc_text[1], <<"E","r","r","o","r"," ","f","e","t","c","h","i","n","g"," ","F","D","C"," ","c","o","n","t","e","x","t">>)
          /\ C20_AllFail => StartsWith(fdc_text[1], <<"N","o"," ","F","D","C"," ","r","e","s","u","l","t","s"," ","f","o","r"," ","'">>)

\* a request in which one search failed, the next held a non-dict item beside a dict,
\* and the branded search succeeded: both copies returned the two dict hits in order
C20_Witness ==
    /\ USDA_API_KEY /\ fdc_query = T_chicken
    /\ fdc_provider["Survey (FNDDS)"] = "unreachable"
    /\ fdc_provider["Foundation"] = "ok"
    /\ fdc_provider["SR Legacy"] = "http_error"
    /\ fdc_provider["Branded"] = "ok"
    /\ all_hits.main # None /\ all_hits.helpers # None
    /\ all_hits.main[1].value = <<HitThigh, HitBar>>
    /\ all_hits.helpers[1].value = <<HitThigh, HitBar>>

\* all four searches failed, each in another way, and fdc_context answered "No FDC results"
C20_AllFailWitnessed ==
    /\ USDA_API_KEY /\ fdc_query = <<"n","u","t","r","i","t","i","o","n"," ","f","o","r"," ","c","h","i","c","k","e","n">>
    /\ fdc_provider["Survey (FNDDS)"] = "unreachable"
    /\ fdc_provider["Foundation"] = "http_error"
    /\ fdc_provider["SR Legacy"] = "non_json"
    /\ fdc_provider["Branded"] = "not_object"
    /\ fdc_text = Some(<<"N","o"," ","F","D","C"," ","r","e","s","u","l","t","s"," ","f","o","r"," ","'","c","h","i","c","k","e","n","'",".">>)

(***************************************************************************)
(* SpecFdcJson: one direct call of each copy of _fdc_search_json, with or  *)
(* without a data type, the FDC search being in some condition.            *)
(***************************************************************************)
FdcDataTypes ==
    {None} \cup {Some(FDC_DATATYPES_PRIORITIZED[i]) : i \in 1..Len(FDC_DATATYPES_PRIORITIZED)}

\* if data_type: params["dataType"] = data_type  -- "" when the parameter is not sent
DataTypeParam(data_type) == IF data_type = None THEN "" ELSE data_type[1]

InitFdcJson ==
    /\ USDA_API_KEY \in BOOLEAN /\ OPENFDA_API_KEY = FALSE
    /\ cache = EmptyCaches /\ lookups = <<>> /\ driver = "_fdc_search_json" /\ fresh = 0
    /\ items = <<>> /\ do_recall = FALSE /\ do_nutrition = FALSE
    /\ out = <<>> /\ multi_calls = 0
    /\ fdc_query \in FdcQueries
    /\ fdc_data_type \in FdcDataTypes
    /\ fdc_provider \in [{DataTypeParam(fdc_data_type)} -> FdcKinds]
    /\ all_hits = [main |-> <<>>, helpers |-> <<>>] /\ fdc_text = <<>>
    /\ fdc_json = [main |-> <<>>, helpers |-> <<>>]
    /\ IdleWorkout /\ IdleTerms /\ IdleRank /\ IdleParse

CallFdcSearchJsonMain ==
    /\ driver = "_fdc_search_json"
    /\ fdc_json.main = None
    /\ fdc_json' = [fdc_json EXCEPT !.main =
                       Some(FdcSearchJsonMain(fdc_query, DataTypeParam(fdc_data_type), 5,
                                              USDA_API_KEY,
                                              fdc_provider[DataTypeParam(fdc_data_type)]))]
    /\ UNCHANGED <<fdc_query, fdc_provider, all_hits, fdc_text, fdc_data_type,
                   cvars, wvars, tvars, rvars, pvars>>

CallFdcSearchJsonHelpers ==
    /\ driver = "_fdc_search_json"
    /\ fdc_json.helpers = None
    /\ fdc_json' = [fdc_json EXCEPT !.helpers =
                       Some(FdcSearchJsonHelpers(fdc_query, DataTypeParam(fdc_data_type), 5,
                                                 USDA_API_KEY,
                                                 fdc_provider[DataTypeParam(fdc_data_type)]))]
    /\ UNCHANGED <<fdc_query, fdc_provider, all_hits, fdc_text, fdc_data_type,
                   cvars, wvars, tvars, rvars, pvars>>

NextFdcJson == CallFdcSearchJsonMain \/ CallFdcSearchJsonHelpers
SpecFdcJson == InitFdcJson /\ [][NextFdcJson]_vars

(***************************************************************************)
(* Claims about _fdc_search_json of helpers_usda.py.                       *)
(***************************************************************************)
C21_Kind == fdc_provider[DataTypeParam(fdc_data_type)]
C21_Called == driver = "_fdc_search_json" /\ fdc_json.helpers # None

\* C21: helpers_usda._fdc_search_json returns a dict or raises FDCError: whatever the
\* call meets (no API key, a request that cannot connect or times out, an HTTP error
\* status, a body that is not JSON, JSON that is not an object), the call either
\* returns a JSON object or raises FDCError, and no other exception type.
C21_Original ==
    C21_Called =>
        LET res == fdc_json.helpers[1]
        IN /\ res.raised \in {"", "FDCError"}
           /\ res.raised = "" => IsDict(res.value)

\* the outcomes for which the contract of C21 does hold: every one but a request that
\* cannot connect or times out
C21_FdcErrorUnlessUnreachable ==
    C21_Called /\ ~(USDA_API_KEY /\ C21_Kind = "unreachable") =>
        LET res == fdc_json.helpers[1]
        IN /\ res.raised \in {"", "FDCError"}
           /\ res.raised = "" <=> (USDA_API_KEY /\ C21_Kind \in {"ok", "foods_null", "foods_not_list"})
           /\ res.raised = "" => IsDict(res.value)

\* the request cannot connect: the exception of requests.get leaves the function as it is
C21_ConnectionErrorEscapes ==
    /\ C21_Called /\ USDA_API_KEY /\ C21_Kind = "unreachable"
    /\ fdc_json.helpers[1].raised = "ConnectionError"

(***************************************************************************)
(* Claims about the block templates of _default_blocks_for_focus.          *)
(***************************************************************************)
C22_Templates == {"strength", "hypertrophy", "conditioning", "mixed"}
C22_Planned == plan # None /\ plan[1].focus \in C22_Templates
\* the minutes of m left after the first two blocks
C22_Remainder == plan[1].minutes - plan[1].blocks[1].min - plan[1].blocks[2].min

\* C22: in a strength, hypertrophy, conditioning or mixed plan, for every clamped
\* minutes m in 15..75, there are two or three blocks; the third block is there exactly
\* when m minus the first two blocks' minutes is at least 5; when it is there it takes
\* that remainder, so the three blocks sum to m; when it is not, the two blocks leave
\* at least 0 and fewer than 5 minutes of m unallocated.
C22_ThirdBlockRule ==
    C22_Planned =>
        LET bs == plan[1].blocks
            m == plan[1].minutes
        IN /\ m \in 15..75
           /\ Len(bs) \in {2, 3}
           /\ Len(bs) = 3 <=> C22_Remainder >= 5
           /\ Len(bs) = 3 => bs[3].min = C22_Remainder /\ SumMin(bs) = m
           /\ Len(bs) = 2 => m - SumMin(bs) \in 0..4

\* C22 witness: a 20-minute strength plan without the third block; 3 minutes are left
C22_Witness ==
    /\ C22_Planned /\ plan[1].focus = "strength" /\ plan[1].minutes = 20
    /\ Len(plan[1].blocks) = 2 /\ C22_Remainder = 3

\* the third block with the smallest remainder that emits it, in a mixed plan
C22_EmittedWitnessed ==
    /\ C22_Planned /\ plan[1].focus = "mixed"
    /\ Len(plan[1].blocks) = 3 /\ plan[1].blocks[3].min = 5

\* every template is planned with and without its third block
C22_TemplateCase(fc, n) == C22_Planned /\ plan[1].focus = fc /\ Len(plan[1].blocks) = n
C22_StrengthTwo == C22_TemplateCase("strength", 2)
C22_StrengthThree == C22_TemplateCase("strength", 3)
C22_HypertrophyTwo == C22_TemplateCase("hypertrophy", 2)
C22_HypertrophyThree == C22_TemplateCase("hypertrophy", 3)
C22_ConditioningTwo == C22_TemplateCase("conditioning", 2)
C22_ConditioningThree == C22_TemplateCase("conditioning", 3)
C22_MixedTwo == C22_TemplateCase("mixed", 2)
C22_MixedThree == C22_TemplateCase("mixed", 3)

(***************************************************************************)
(* Claims about provider failures and the lookup caches.                   *)
(***************************************************************************)
C23_Nutrition == {"get_usda_nutrition", "get_openfoodfacts_info"}
C23_Key == <<T_beef>>
C23_Cached(c) == C23_Key \in C18_Keys(c)
C23_CachedNone(c) == C23_Cached(c) /\ C18_Stored(c, C23_Key) = None

\* C23: provider failures are memoized like successes.  For get_usda_nutrition and
\* get_openfoodfacts_info and a term the provider knows: a call that finds no entry
\* while the provider fails returns none and stores none; while the none entry is
\* cached, every call with the term returns none and sends no request, whatever the
\* provider's condition (recovered or not), and the entry stays none; the entry leaves
\* the cache only as the least recently used entry of a full cache, dropped by a call
\* with another term; a request is sent only by a call that finds no entry, and with
\* the provider recovered that call returns the product text.
C23_FailuresMemoized ==
    [][(driver \in C23_Nutrition =>
          LET c == cache[driver]
              c2 == cache'[driver]
              rec == lookups'[1]
          IN /\ (rec.key = C23_Key /\ ~C23_Cached(c) /\ rec.cond # "ok") =>
                   /\ rec.result = None /\ rec.requests >= 1
                   /\ C23_CachedNone(c2)
             /\ (rec.key = C23_Key /\ C23_CachedNone(c)) =>
                   /\ rec.result = None /\ rec.requests = 0
                   /\ C23_CachedNone(c2)
             /\ (C23_Cached(c) /\ ~C23_Cached(c2)) =>
                   /\ rec.key # C23_Key /\ ~rec.hit
                   /\ Len(c) = maxsize /\ c[1].key = C23_Key
             /\ (rec.key # C23_Key /\ C23_CachedNone(c) /\ C23_Cached(c2)) => C23_CachedNone(c2)
             /\ (rec.key = C23_Key /\ rec.requests > 0) => ~C23_Cached(c)
             /\ (rec.key = C23_Key /\ ~C23_Cached(c) /\ rec.cond = "ok") =>
                   /\ rec.requests >= 1 /\ rec.result # None
                   /\ ~C23_CachedNone(c2))]_vars

\* C23 witness: the provider has recovered, and the call is still answered none from
\* the cache, without a request
C23_Witness ==
    /\ driver \in C23_Nutrition /\ lookups # <<>>
    /\ lookups[1].key = C23_Key /\ lookups[1].cond = "ok"
    /\ lookups[1].hit /\ lookups[1].requests = 0 /\ lookups[1].result = None
    /\ C23_CachedNone(cache[driver])

\* the call that stored the failure
C23_FailureStored ==
    /\ driver \in C23_Nutrition /\ lookups # <<>>
    /\ lookups[1].key = C23_Key /\ lookups[1].cond # "ok"
    /\ ~lookups[1].hit /\ lookups[1].requests >= 1 /\ lookups[1].result = None
    /\ C23_CachedNone(cache[driver])

\* the none entry is the least recently used one of a full cache: the next new term
\* drops it
C23_AboutToBeEvicted ==
    /\ driver \in C23_Nutrition
    /\ Len(cache[driver]) = maxsize /\ cache[driver][1] = [key |-> C23_Key, value |-> None]

\* a call with the term after more than 128 other terms: no entry, a request, the text
C23_RetriedAfterEviction ==
    /\ driver \in C23_Nutrition /\ lookups # <<>> /\ fresh >= maxsize
    /\ lookups[1].key = C23_Key /\ lookups[1].cond = "ok"
    /\ ~lookups[1].hit /\ lookups[1].requests >= 1 /\ lookups[1].result # None

\* there is no behaviour in which the failure is stored, the entry is later gone from
\* the cache, and a later call gets the text  (violated: the retry does happen)
C23_NeverRetried ==
    ~<>(C23_FailureStored /\ <>(~C23_Cached(cache[driver]) /\ <>C23_RetriedAfterEviction))

(***************************************************************************)
(* Claims about undefined macro fields in _choose_focus.                   *)
(***************************************************************************)
C24_OverrideGoals ==
    {S_strength, S_power, S_fat_loss, S_cut, S_lean, S_conditioning,
     S_muscle, S_hypertrophy, S_build}
C24_ZeroFilled(m) ==
    MkMacros(Some(OrZero(m.protein_g)), Some(OrZero(m.carbs_g)), Some(OrZero(m.sugars_g)),
             Some(OrZero(m.fat_g)), Some(OrZero(m.kcal)))
C24_AllZeroMacros == MkMacros(Some(0), Some(0), Some(0), Some(0), Some(0))
C24_LowEnergy ==
    [focus |-> "active recovery",
     why |-> "This is a very low-energy food/drink. A light active recovery session (like a walk or stretching) is a great choice."]

\* C24 as stated: for a Macros with every field undefined and any goal string that is
\* not one of the nine override words (the empty goal included), choose_focus returns
\* active recovery with the very-low-energy rationale, as for all-zero macros.
C24_Original ==
    (focus # None /\ macros = AllNoneMacros /\ goal \notin C24_OverrideGoals) =>
        /\ focus[1] = C24_LowEnergy
        /\ focus[1] = ChooseFocus(C24_AllZeroMacros, goal)

\* C24, amended: choose_focus reads every undefined macro field as 0: its result is the
\* result for the same macros with each undefined field set to 0; for a Macros with
\* every field undefined and a goal whose lower-cased form (the empty goal read as
\* balance) is not one of the nine override words, the result is active recovery with
\* the very-low-energy rationale, the result for all-zero macros.
C24_UndefinedAsZero ==
    focus # None =>
        /\ focus[1] = ChooseFocus(C24_ZeroFilled(macros), goal)
        /\ (macros = AllNoneMacros /\ NormGoal(goal) \notin C24_OverrideGoals) =>
              /\ focus[1] = C24_LowEnergy
              /\ focus[1] = ChooseFocus(C24_AllZeroMacros, goal)

\* C24 witness: all fields undefined and no goal: active recovery
C24_Witness ==
    /\ focus # None /\ macros = AllNoneMacros /\ goal = <<>>
    /\ focus[1] = C24_LowEnergy

\* all fields undefined and goal "Cut": the override applies, the focus is conditioning
C24_MixedCaseOverride ==
    /\ focus # None /\ macros = AllNoneMacros /\ goal = <<"C","u","t">>
    /\ focus[1].focus = "conditioning"
====
